---- MODULE Spec2Model ----
(***************************************************************************)
(* The decision cycle of the habit agent: AgentLoop.runCycle, the          *)
(* inference client (FunctionGemmaClient.decide over CactusRuntime         *)
(* .complete), the HybridRouter and the ToolExecutor.                      *)
(*                                                                         *)
(* Numbers: battery levels and prompt complexities are hundredths          *)
(* (0.15 is 15), confidences are hundredths (0.1 is 10), latencies are     *)
(* milliseconds.  Comparisons of averages are done on cross-multiplied     *)
(* integers, i.e. exactly.                                                 *)
(*                                                                         *)
(* JavaScript runs one callback at a time: an async function runs          *)
(* without interruption from one await to the next.  The variable turn     *)
(* names the cycle whose code is running (0: the event loop is idle);      *)
(* an action that ends in an await hands the turn back.                    *)
(***************************************************************************)
EXTENDS Integers, Sequences, FiniteSets, TLC

VARIABLES
    \* platform, fixed at module load
    nativeAvailable,        \* cactus-react-native could be required
    cactusTokenSet,         \* config CACTUS_TOKEN is non-empty
    \* CactusRuntime
    isLoaded, isNative, nativeReady, lm, hybridAvailable, geminiApiKey, isDownloading,
    \* FunctionGemmaClient
    modelReady,
    \* HybridRouter (module-level statistics)
    recentLocalLatencies, recentCloudLatencies, localFailures, cloudFailures,
    lastRoute,              \* the last direct routeDecision(ctx) call and its answer
    \* NotificationDispatcher
    nudgeHistory,           \* number of payloads pushed by sendNudge
    \* ToolExecutor, called directly
    lastExec,               \* the last direct execute(call): call, outcome, handler runs
    \* LocalStorageService / AgentLoop
    agent_history,          \* storage.cache.agent_history, oldest first: the results of
                            \* the cycles in flight, each named by the cycle that built
                            \* it (the entries of finished cycles are not followed)
    listeners,              \* AgentLoop.listeners
    \* the cycles
    cy,                     \* per cycle in flight: position and locals of runCycle
    turn,                   \* the cycle whose synchronous code is running, or 0
    \* LocalStorageService / HabitStateEngine
    habits,                 \* storage.cache.habits: habit id -> HabitState, followed
                            \* where the engine and the habit tools are called
                            \* directly; a cycle reads the habits as inputs
    now,                    \* Date.now(), in minutes
    lastOp,                 \* the last direct call of a HabitStateEngine method
    engineCalls,            \* direct calls of the engine and of habit tools so far
    \* LaundryPredictor, applied on its own
    laundry,                \* a LaundryState's metadata
    lastForecast,           \* the last call of predictDepletion: its inputs and result
    \* ContextAggregator
    lastNudgeResponse,      \* the user's last response to a notification, or "null"
    recentNotificationCount, \* responses since the counters were reset
    \* LocalStorageService.getRecentCycles
    lastRecent,             \* its last call: the count asked for and what it returned
    \* AgentLoop: its fields
    running, intervalMs, intervalTimer, scrollPollTimer, healthPollTimer, lastStepCount,
    starting,               \* calls of start() waiting for storage.getSettings()
    \* the platform's timers
    timers,                 \* the live setInterval timers: id, kind, and whether the
                            \* callback delays runCycle by a jitter timeout
    timeouts,               \* pending setTimeout callbacks of the jittered interval
    timerSeq,               \* timer ids handed out so far
    \* the signals the polls read
    steps_today, scroll_minutes, exercised,
    lastStart,              \* the last callback that called runCycle: the triggers
                            \* it passed and who it was
    lastControl,            \* the last of start() / stop() to be called
    \* runCycle, followed over the habit objects it shares with other cycles
    run,                    \* per cycle in flight: position, context, the habits left
                            \* to recompute and the array it returns
    audit,                  \* storage.cache.agent_history with what each result
                            \* refers to: habit_states holds the habit objects
    lastWrite,              \* per habit: the context of the cycle that recomputed
                            \* it last
    normalised,             \* per backend: the last raw result, the response it was
                            \* normalised to and what decide() made of it
    \* the CactusRuntime that guards native inference by a flag
    build,                  \* which CactusRuntime the client was built with
    guarded,                \* its fields: _isLoaded, _isNative, lm, _hybridAvailable,
                            \* _inferring, _nativeFailures
    completions,            \* per complete() call: where it is and what it returned
    generating              \* the calls whose native generation is still running

platformVars == <<nativeAvailable, cactusTokenSet>>
runtimeVars  == <<isLoaded, isNative, nativeReady, lm, hybridAvailable, geminiApiKey, isDownloading>>
routerVars   == <<recentLocalLatencies, recentCloudLatencies, localFailures, cloudFailures>>
loopVars     == <<agent_history, listeners, cy, turn>>
habitVars    == <<habits, now, lastOp, engineCalls>>
laundryVars  == <<laundry, lastForecast>>
notificationVars == <<lastNudgeResponse, recentNotificationCount>>
timerVars    == <<running, intervalMs, intervalTimer, scrollPollTimer, healthPollTimer,
                 lastStepCount, starting, timers, timeouts, timerSeq,
                 steps_today, scroll_minutes, exercised, lastStart, lastControl>>
overlapVars  == <<run, audit, lastWrite>>
parseVars    == <<normalised>>
guardVars    == <<build, guarded, completions, generating>>
restVars     == <<timerVars, overlapVars, parseVars, guardVars>>
partVars     == <<laundryVars, notificationVars, lastRecent, restVars>>
vars == <<platformVars, runtimeVars, modelReady, routerVars, lastRoute,
          nudgeHistory, lastExec, loopVars, habitVars, partVars>>

----------------------------------------------------------------------------
\* Bounds of the model

MaxCycles    == 1      \* cycles that may be in flight at once
MaxListeners == 1      \* subscribers of the agent loop
MaxSamples   == 3      \* recordLatency calls
MaxFailures  == 2      \* cap of a failure counter
MaxNudges    == 2      \* cap of the notification history
MaxCalls     == 3      \* direct calls of the habit engine and the habit tools
MaxPeriods   == 2      \* half-lives of the recency factor the clock may pass
MaxTrimmed   == 3      \* results appended beyond the history's cap
MaxInteractions == 3   \* responses counted before the counters are reset
MaxLog       == 4      \* length of the sample nudge logs taken in every order
MaxStock     == 3      \* clean items of a sample inventory
MaxRate      == 2      \* items a gym session takes, in a sample inventory
MaxTimers    == 7      \* timer ids the platform hands out
MaxTimeouts  == 1      \* jitter timeouts pending at once
MaxStarting  == 2      \* calls of start() waiting for the settings at once
MaxInFlight  == 2      \* cycles followed over the habits at once
MaxRuns      == 2      \* cycles followed over the habits in all
MaxRequests  == 2      \* complete() calls of the flag-guarded runtime at once

Cycles    == 1..MaxCycles
Listeners == 1..MaxListeners

----------------------------------------------------------------------------
\* Tool calls, tool results

NoError == [kind |-> "", detail |-> "", available |-> <<>>]

\* arguments: the set of <<key, value>> pairs of the arguments object; hasArgs is
\* FALSE when the arguments property is undefined.
Call(n, a)      == [name |-> n, arguments |-> a, hasArgs |-> TRUE]
CallNoArgs(n)   == [name |-> n, arguments |-> {}, hasArgs |-> FALSE]
NullCall        == [name |-> "null", arguments |-> {}, hasArgs |-> FALSE]

Has(args, k)    == \E p \in args : p[1] = k
Truthy(args, k) == \E p \in args : p[1] = k /\ p[2] # ""

\* shape "ToolResult": an object {success, tool_name, data, error?}.
\* shape "Object": some other value (it has no success, tool_name or error).
Result(ok, n, e) == [shape |-> "ToolResult", success |-> ok, tool_name |-> n, error |-> e]
NotAResult       == [shape |-> "Object", success |-> FALSE, tool_name |-> "", error |-> NoError]
NullResult       == [shape |-> "null", success |-> FALSE, tool_name |-> "", error |-> NoError]

\* Object.keys(TOOL_HANDLERS), in insertion order
TOOL_HANDLERS ==
    << "send_nudge", "update_habit_state", "increase_cooldown", "delay_nudge",
       "create_calendar_block", "schedule_reminder", "adjust_difficulty",
       "celebrate_milestone", "suggest_habit_stack", "log_health_activity",
       "set_smart_alarm", "analyze_pattern", "fetch_google_calendar",
       "create_google_calendar_event", "add_shopping_item", "get_shopping_list" >>

Range(s) == { s[i] : i \in DOMAIN s }

\* TOOL_HANDLERS is an object literal: a lookup by name also finds what it inherits
\* from Object.prototype.  Called as handler(args), "constructor" (the function
\* Object) returns args and "toString" returns a string; "valueOf", called with no
\* receiver, throws a TypeError.
InheritedCallables == { "constructor", "toString" }
InheritedThrowing  == { "valueOf" }

\* TOOL_DEFINITIONS: each tool's parameters.required
TOOL_DEFINITIONS ==
    [ send_nudge |-> {"habit_id", "tone", "message"},
      update_habit_state |-> {"habit_id", "field", "value"},
      increase_cooldown |-> {"habit_id", "minutes"},
      delay_nudge |-> {"habit_id", "reason"},
      create_calendar_block |-> {"habit_id", "title", "duration_minutes"},
      schedule_reminder |-> {"habit_id", "message", "delay_minutes"},
      adjust_difficulty |-> {"habit_id", "direction", "reason"},
      celebrate_milestone |-> {"habit_id", "milestone", "message"},
      suggest_habit_stack |-> {"primary_habit_id", "stacked_habit_id", "message"},
      log_health_activity |-> {"habit_id", "activity_type"},
      set_smart_alarm |-> {"habit_id", "hour", "label"},
      analyze_pattern |-> {"habit_id", "pattern_type"},
      fetch_google_calendar |-> {},
      create_google_calendar_event |-> {"title", "duration_minutes"},
      add_shopping_item |-> {"item"},
      get_shopping_list |-> {} ]

----------------------------------------------------------------------------
\* Numbers of the scoring engine.  A score is a fraction <<n, d>> with d > 0, kept
\* in lowest terms; the instants are minutes.

Abs(n) == IF n < 0 THEN -n ELSE n

RECURSIVE Gcd(_, _)
Gcd(a, b) == IF b = 0 THEN a ELSE Gcd(b, a % b)

Lcm(a, b) == (a \div Gcd(a, b)) * b

Norm(f) == LET g == Gcd(Abs(f[1]), f[2]) IN <<f[1] \div g, f[2] \div g>>

Zero == <<0, 1>>
One  == <<1, 1>>

Leq(f, g)  == f[1] * g[2] <= g[1] * f[2]
MinF(f, g) == IF Leq(f, g) THEN f ELSE g
MaxF(f, g) == IF Leq(f, g) THEN g ELSE f
AddF(f, g) == Norm(<<f[1] * g[2] + g[1] * f[2], f[2] * g[2]>>)
Hundredths(h) == Norm(<<h, 100>>)

RECURSIVE SumSeq(_)
SumSeq(arr) == IF arr = <<>> THEN 0 ELSE arr[1] + SumSeq(Tail(arr))

RECURSIVE Pow2(_)
Pow2(k) == IF k = 0 THEN 1 ELSE 2 * Pow2(k - 1)

\* last_completion_timestamp: null
Null == 0 - 1

----------------------------------------------------------------------------
\* MomentumCalculator

W_STREAK     == 25
W_RECENCY    == 30
W_SUCCESS    == 25
W_FRICTION   == 10
W_RESISTANCE == 10

STREAK_SATURATION       == 14
RECENCY_HALF_LIFE_HOURS == 36

streakFactor(streak) == MinF(Norm(<<streak, STREAK_SATURATION>>), One)

\* Math.pow(0.5, hoursSince / 36); the clock moves in whole half-lives, so the
\* exponent is a whole number
recencyFactor(lastCompletionTimestamp, t) ==
    IF lastCompletionTimestamp = Null \/ lastCompletionTimestamp = 0 THEN Zero
    ELSE IF t - lastCompletionTimestamp < 0 THEN One
    ELSE <<1, Pow2((t - lastCompletionTimestamp) \div (RECENCY_HALF_LIFE_HOURS * 60))>>

\* Math.round(Math.max(0, Math.min(100, raw * 100))); raw * 100 is n / d below
calculateMomentum(habit, t) ==
    LET streak     == streakFactor(habit.streak_count)
        recency    == recencyFactor(habit.last_completion_timestamp, t)
        success    == habit.completion_rate_7d
        friction   == habit.friction_score
        resistance == habit.resistance_score
        d == Lcm(Lcm(Lcm(streak[2], recency[2]), Lcm(success[2], friction[2])),
                 resistance[2])
        n ==   W_STREAK * streak[1] * (d \div streak[2])
             + W_RECENCY * recency[1] * (d \div recency[2])
             + W_SUCCESS * success[1] * (d \div success[2])
             - W_FRICTION * friction[1] * (d \div friction[2])
             - W_RESISTANCE * resistance[1] * (d \div resistance[2])
    IN IF n <= 0 THEN 0
       ELSE IF n >= 100 * d THEN 100
       ELSE (n \div d) + (IF 2 * (n % d) >= d THEN 1 ELSE 0)

\* params: isInEvent, isWeekend, hourOfDay, motionState, continuousScreenMinutes,
\* inPreferredWindow; the sum is counted in hundredths
calculateFriction(params) ==
    LET friction ==
              (IF params.isInEvent THEN 40 ELSE 0)
            + (IF params.motionState = "driving" THEN 50 ELSE 0)
            + (IF params.hourOfDay < 6 \/ params.hourOfDay > 23 THEN 60
               ELSE IF params.hourOfDay < 7 \/ params.hourOfDay > 22 THEN 30 ELSE 0)
            + (IF params.continuousScreenMinutes > 30 THEN 15 ELSE 0)
            - (IF params.inPreferredWindow THEN 25 ELSE 0)
            - (IF params.isWeekend THEN 10 ELSE 0)
    IN MaxF(Zero, MinF(One, Hundredths(friction)))

LastN(s, n) == IF Len(s) <= n THEN s ELSE SubSeq(s, Len(s) - n + 1, Len(s))

\* calculateResistance with every entry weighing the same
calculateResistance_Unweighted(habit) ==
    LET recent == LastN(habit.recent_nudge_outcomes, 10)
        negativeCount == SumSeq([ i \in 1..Len(recent) |->
                                    IF recent[i] \in { "dismissed", "ignored" }
                                    THEN 1 ELSE 0 ])
    IN IF Len(recent) = 0 THEN <<1, 5>>
       ELSE MaxF(Zero, MinF(One, Norm(<<negativeCount, Len(recent)>>)))

\* the recency weight of entry i is i / recent.length: the length cancels in
\* negativeCount / totalWeight
calculateResistance(habit) ==
    LET recent == LastN(habit.recent_nudge_outcomes, 10)
        totalWeight   == SumSeq([ i \in 1..Len(recent) |-> i ])
        negativeCount == SumSeq([ i \in 1..Len(recent) |->
                                    IF recent[i] \in { "dismissed", "ignored" }
                                    THEN i ELSE 0 ])
    IN IF Len(recent) = 0 THEN <<1, 5>>
       ELSE MaxF(Zero, MinF(One, Norm(<<negativeCount, totalWeight>>)))

----------------------------------------------------------------------------
\* LaundryPredictor

\* the days ahead, of the next 14, that are gym days, soonest first
getUpcomingGymDays(gymDays, currentDayOfWeek, lookAheadDays) ==
    LET ahead == { d \in 1..lookAheadDays : ((currentDayOfWeek + d) % 7) \in gymDays }
    IN [ j \in 1..Cardinality(ahead) |->
            CHOOSE d \in ahead : Cardinality({ e \in ahead : e < d }) = j - 1 ]

\* categorizeUrgency with the bounds of 'medium' and 'low' exchanged
categorizeUrgency_Exchanged(daysUntilDepletion) ==
    IF daysUntilDepletion <= 0 THEN "critical"
    ELSE IF daysUntilDepletion <= 1 THEN "high"
    ELSE IF daysUntilDepletion <= 5 THEN "medium"
    ELSE IF daysUntilDepletion <= 3 THEN "low"
    ELSE "none"

categorizeUrgency(daysUntilDepletion) ==
    IF daysUntilDepletion <= 0 THEN "critical"
    ELSE IF daysUntilDepletion <= 1 THEN "high"
    ELSE IF daysUntilDepletion <= 3 THEN "medium"
    ELSE IF daysUntilDepletion <= 5 THEN "low"
    ELSE "none"

\* the forecast: days_until_depletion and urgency
predictDepletion(meta, currentDay) ==
    LET upcomingGymDays == getUpcomingGymDays(meta.gym_days, currentDay, 14)
        empties == { j \in 1..Len(upcomingGymDays) :
                        meta.clean_count - j * meta.avg_clothes_per_session <= 0 }
        cleanRemaining == IF empties # {}
                          THEN 0
                          ELSE meta.clean_count
                                 - Len(upcomingGymDays) * meta.avg_clothes_per_session
        daysUntilDepletion ==
            IF empties # {}
            THEN upcomingGymDays[CHOOSE j \in empties : \A k \in empties : j <= k]
            ELSE IF cleanRemaining > 0 THEN 14 ELSE 0
    IN [ days_until_depletion |-> daysUntilDepletion,
         urgency |-> categorizeUrgency(daysUntilDepletion) ]

laundryFrictionBoost(forecast) ==
    CASE forecast.urgency = "critical" -> Hundredths(50)
      [] forecast.urgency = "high"     -> Hundredths(30)
      [] forecast.urgency = "medium"   -> Hundredths(15)
      [] forecast.urgency = "low"      -> Hundredths(5)
      [] OTHER                         -> Zero

Max(a, b) == IF a >= b THEN a ELSE b

\* the inventory after a gym session
consumeGymClothes(meta) ==
    LET newClean == Max(0, meta.clean_count - meta.avg_clothes_per_session)
        consumed == meta.clean_count - newClean
    IN [meta EXCEPT !.clean_count = newClean, !.dirty_count = meta.dirty_count + consumed]

\* the inventory after a wash
washClothes(meta) ==
    [meta EXCEPT !.clean_count = meta.clean_count + meta.dirty_count, !.dirty_count = 0]

----------------------------------------------------------------------------
\* HabitState records and LocalStorageService's habit map.  Of a habit's metadata
\* the laundry inventory is followed; the logs kept there (health_activities,
\* difficulty_adjustments) are not.

Window(startHour, endHour, dayOfWeek) ==
    [ startHour |-> startHour, endHour |-> endHour, dayOfWeek |-> dayOfWeek ]

NoMetadata ==
    [ has_total_gym_clothes |-> FALSE, clean_count |-> 0, avg_clothes_per_session |-> 0,
      gym_days |-> {}, predicted_depletion_date |-> Null ]

Habit(id, windows, resistance, metadata) ==
    [ id |-> id, streak_count |-> 0, last_completion_timestamp |-> Null,
      completion_rate_7d |-> Zero, preferred_time_windows |-> windows,
      resistance_score |-> resistance, friction_score |-> Zero, momentum_score |-> 0,
      cooldown_until |-> 0, recent_nudge_outcomes |-> <<>>, metadata |-> metadata ]

\* Of the six habits createDefaultHabits saves, gym and laundry are followed.
DefaultHabits ==
    [ id \in { "gym", "laundry" } |->
        IF id = "gym"
        THEN Habit(id, { Window(6, 9, { 1, 2, 3, 4, 5 }), Window(17, 20, { 1, 2, 3, 4, 5 }) },
                   Hundredths(30), NoMetadata)
        ELSE Habit(id, { Window(19, 22, { 0, 3, 6 }) }, Hundredths(40),
                   [ has_total_gym_clothes |-> TRUE, clean_count |-> 7,
                     avg_clothes_per_session |-> 1, gym_days |-> { 1, 3, 5 },
                     predicted_depletion_date |-> Null ]) ]

\* storage.getHabit(id) is null
Missing(store, id) == id \notin DOMAIN store

saveHabit(store, habit) ==
    [ i \in DOMAIN store \cup { habit.id } |-> IF i = habit.id THEN habit ELSE store[i] ]

\* habit[field] = value, for a whole number value and the fields the model's
\* calls name (a score holds the fraction value / 1)
updateHabitField(store, habitId, field, value) ==
    IF Missing(store, habitId) THEN store
    ELSE LET habit == store[habitId] IN
         saveHabit(store,
            CASE field = "resistance_score"   -> [habit EXCEPT !.resistance_score = <<value, 1>>]
              [] field = "friction_score"     -> [habit EXCEPT !.friction_score = <<value, 1>>]
              [] field = "completion_rate_7d" -> [habit EXCEPT !.completion_rate_7d = <<value, 1>>]
              [] field = "streak_count"       -> [habit EXCEPT !.streak_count = value]
              [] field = "metadata.clean_count" ->
                     [habit EXCEPT !.metadata.clean_count = value]
              [] field = "metadata.avg_clothes_per_session" ->
                     [habit EXCEPT !.metadata.avg_clothes_per_session = value])

----------------------------------------------------------------------------
\* HabitStateEngine, as functions of the habit map

isInPreferredWindow(habit, context) ==
    \E w \in habit.preferred_time_windows :
        /\ context.dayOfWeek \in w.dayOfWeek
        /\ context.hour >= w.startHour
        /\ context.hour < w.endHour

isLaundryHabit(habit) == habit.id = "laundry" /\ habit.metadata.has_total_gym_clothes

\* a variant of the loop's round that adds to the friction stored
recalculateOne_OnStored(habit, context, t) ==
    LET frictionBase == calculateFriction(
            [ isInEvent |-> context.isInEvent, isWeekend |-> context.isWeekend,
              hourOfDay |-> context.hour, motionState |-> context.motionState,
              continuousScreenMinutes |-> context.continuousScreenMinutes,
              inPreferredWindow |-> isInPreferredWindow(habit, context) ])
        forecast == predictDepletion(habit.metadata, context.dayOfWeek)
        onStored == AddF(habit.friction_score, frictionBase)
        boosted  == IF isLaundryHabit(habit)
                    THEN [habit EXCEPT
                            !.friction_score =
                                MinF(One, AddF(onStored, laundryFrictionBoost(forecast))),
                            !.metadata.predicted_depletion_date =
                                t + forecast.days_until_depletion * 24 * 60]
                    ELSE [habit EXCEPT !.friction_score = MinF(One, onStored)]
        resisted == [boosted EXCEPT !.resistance_score = calculateResistance(boosted)]
    IN [resisted EXCEPT !.momentum_score = calculateMomentum(resisted, t)]

\* a variant of the loop's round without Math.min(1, frictionBase)
recalculateOne_Uncapped(habit, context, t) ==
    LET frictionBase == calculateFriction(
            [ isInEvent |-> context.isInEvent, isWeekend |-> context.isWeekend,
              hourOfDay |-> context.hour, motionState |-> context.motionState,
              continuousScreenMinutes |-> context.continuousScreenMinutes,
              inPreferredWindow |-> isInPreferredWindow(habit, context) ])
        forecast == predictDepletion(habit.metadata, context.dayOfWeek)
        boosted  == IF isLaundryHabit(habit)
                    THEN [habit EXCEPT
                            !.friction_score =
                                AddF(frictionBase, laundryFrictionBoost(forecast)),
                            !.metadata.predicted_depletion_date =
                                t + forecast.days_until_depletion * 24 * 60]
                    ELSE [habit EXCEPT !.friction_score = frictionBase]
        resisted == [boosted EXCEPT !.resistance_score = calculateResistance(boosted)]
    IN [resisted EXCEPT !.momentum_score = calculateMomentum(resisted, t)]

\* one round of recalculateAll's loop; context.timestamp is t
recalculateOne(habit, context, t) ==
    LET frictionBase == calculateFriction(
            [ isInEvent |-> context.isInEvent, isWeekend |-> context.isWeekend,
              hourOfDay |-> context.hour, motionState |-> context.motionState,
              continuousScreenMinutes |-> context.continuousScreenMinutes,
              inPreferredWindow |-> isInPreferredWindow(habit, context) ])
        forecast == predictDepletion(habit.metadata, context.dayOfWeek)
        boosted  == IF isLaundryHabit(habit)
                    THEN [habit EXCEPT
                            !.friction_score =
                                MinF(One, AddF(frictionBase, laundryFrictionBoost(forecast))),
                            !.metadata.predicted_depletion_date =
                                t + forecast.days_until_depletion * 24 * 60]
                    ELSE [habit EXCEPT !.friction_score = MinF(One, frictionBase)]
        resisted == [boosted EXCEPT !.resistance_score = calculateResistance(boosted)]
    IN [resisted EXCEPT !.momentum_score = calculateMomentum(resisted, t)]

recalculateAll(store, context, t) ==
    [ id \in DOMAIN store |-> recalculateOne(store[id], context, t) ]

\* the habit map after recordCompletion(habitId) at instant t; it returns null
\* exactly when the habit is missing.  rate * 0.85 + 0.15 is (17 n + 3 d) / 20 d
recordCompletion(store, habitId, t) ==
    IF Missing(store, habitId) THEN store
    ELSE LET habit == store[habitId]
             lastCompletion == habit.last_completion_timestamp
             rate == habit.completion_rate_7d
             within == /\ lastCompletion # Null
                       /\ lastCompletion # 0
                       /\ 2 * (t - lastCompletion) <= 3 * 24 * 60
             completed ==
                [habit EXCEPT
                    !.streak_count = IF within THEN @ + 1 ELSE 1,
                    !.last_completion_timestamp = t,
                    !.completion_rate_7d =
                        MinF(One, Norm(<<17 * rate[1] + 3 * rate[2], 20 * rate[2]>>))]
         IN saveHabit(store,
                [completed EXCEPT !.momentum_score = calculateMomentum(completed, t)])

\* recordNudgeOutcome keeping the oldest 20 records
recordNudgeOutcome_KeepsOldest(store, habitId, outcome) ==
    IF Missing(store, habitId) THEN store
    ELSE LET habit  == store[habitId]
             all    == Append(habit.recent_nudge_outcomes, outcome)
             pushed == [habit EXCEPT
                          !.recent_nudge_outcomes =
                              IF Len(all) > 20 THEN SubSeq(all, 1, 20) ELSE all]
         IN saveHabit(store,
                [pushed EXCEPT !.resistance_score = calculateResistance(pushed)])

recordNudgeOutcome(store, habitId, outcome) ==
    IF Missing(store, habitId) THEN store
    ELSE LET habit  == store[habitId]
             pushed == [habit EXCEPT
                          !.recent_nudge_outcomes = LastN(Append(@, outcome), 20)]
         IN saveHabit(store,
                [pushed EXCEPT !.resistance_score = calculateResistance(pushed)])

setCooldown(store, habitId, minutes, t) ==
    IF Missing(store, habitId) THEN store
    ELSE saveHabit(store, [store[habitId] EXCEPT !.cooldown_until = t + minutes])

isCoolingDown(habit, t) == habit.cooldown_until > t

----------------------------------------------------------------------------
\* Tool handlers.  A handler's outcome: it threw (its promise rejected) with err,
\* or it returned result; nudged: it pushed a payload through sendNudge; store:
\* the habit map it leaves.

Threw(e)        == [threw |-> TRUE, err |-> e, result |-> NullResult, nudged |-> FALSE,
                    store |-> habits]
Returned(r, n)  == [threw |-> FALSE, err |-> "", result |-> r, nudged |-> n,
                    store |-> habits]

TypeErrorUndefined == "TypeError: Cannot read properties of undefined"

handleDelayNudge(call) ==
    IF ~call.hasArgs THEN Threw(TypeErrorUndefined)
    ELSE IF ~Truthy(call.arguments, "habit_id") \/ ~Truthy(call.arguments, "reason")
         THEN Returned(Result(FALSE, "delay_nudge",
                  [NoError EXCEPT !.kind = "Missing required parameters",
                                  !.detail = "habit_id, reason"]), FALSE)
         ELSE Returned(Result(TRUE, "delay_nudge", NoError), FALSE)

handleSuggestHabitStack(call) ==
    IF ~call.hasArgs THEN Threw(TypeErrorUndefined)
    ELSE IF \/ ~Truthy(call.arguments, "primary_habit_id")
            \/ ~Truthy(call.arguments, "stacked_habit_id")
            \/ ~Truthy(call.arguments, "message")
         THEN Returned(Result(FALSE, "suggest_habit_stack",
                  [NoError EXCEPT !.kind = "Required",
                                  !.detail = "primary_habit_id, stacked_habit_id, message"]), FALSE)
         ELSE Returned(Result(TRUE, "suggest_habit_stack", NoError), TRUE)

\* signedIn: googleAuth.isSignedIn; fetchOk: fetchCalendarEvents resolved
handleFetchGoogleCalendar(call, signedIn, fetchOk) ==
    IF ~call.hasArgs THEN Threw(TypeErrorUndefined)
    ELSE IF ~signedIn
         THEN Returned(Result(FALSE, "fetch_google_calendar",
                  [NoError EXCEPT !.kind = "Not signed in to Google"]), FALSE)
         ELSE IF fetchOk
              THEN Returned(Result(TRUE, "fetch_google_calendar", NoError), FALSE)
              ELSE Returned(Result(FALSE, "fetch_google_calendar",
                       [NoError EXCEPT !.kind = "Calendar fetch failed"]), FALSE)

\* args[k], for a key the arguments hold
Arg(args, k) == (CHOOSE p \in args : p[1] = k)[2]

\* Number(v) of the numerals the model's calls carry; of any other string it is NaN
Numerals == { "-5", "0", "1", "7", "30", "120", "500" }
NumberOf(v) ==
    CASE v = "-5"  -> -5
      [] v = "0"   -> 0
      [] v = "1"   -> 1
      [] v = "7"   -> 7
      [] v = "30"  -> 30
      [] v = "120" -> 120
      [] v = "500" -> 500

handleSendNudge(call) ==
    IF ~call.hasArgs THEN Threw(TypeErrorUndefined)
    ELSE IF \/ ~Truthy(call.arguments, "habit_id")
            \/ ~Truthy(call.arguments, "tone")
            \/ ~Truthy(call.arguments, "message")
         THEN Returned(Result(FALSE, "send_nudge",
                  [NoError EXCEPT !.kind = "Missing required parameters",
                                  !.detail = "habit_id, tone, message"]), FALSE)
         ELSE [Returned(Result(TRUE, "send_nudge", NoError), TRUE) EXCEPT
                  !.store = recordNudgeOutcome(habits, Arg(call.arguments, "habit_id"),
                                               "null")]

\* a variant of handleIncreaseCooldown that applies the minutes as given
handleIncreaseCooldown_Uncapped(call) ==
    IF ~call.hasArgs THEN Threw(TypeErrorUndefined)
    ELSE IF \/ ~Truthy(call.arguments, "habit_id")
            \/ ~Has(call.arguments, "minutes")
            \/ (Arg(call.arguments, "minutes") # ""
                  /\ Arg(call.arguments, "minutes") \notin Numerals)
            \/ (IF Arg(call.arguments, "minutes") = "" THEN 0
                ELSE NumberOf(Arg(call.arguments, "minutes"))) <= 0
         THEN Returned(Result(FALSE, "increase_cooldown",
                  [NoError EXCEPT !.kind = "Missing or invalid parameters",
                                  !.detail = "habit_id (string), minutes (positive number)"]),
                  FALSE)
         ELSE [Returned(Result(TRUE, "increase_cooldown", NoError), FALSE) EXCEPT
                  !.store = setCooldown(habits, Arg(call.arguments, "habit_id"),
                                        NumberOf(Arg(call.arguments, "minutes")), now)]

handleIncreaseCooldown(call) ==
    IF ~call.hasArgs THEN Threw(TypeErrorUndefined)
    ELSE IF \/ ~Truthy(call.arguments, "habit_id")
            \/ ~Has(call.arguments, "minutes")
            \/ (Arg(call.arguments, "minutes") # ""
                  /\ Arg(call.arguments, "minutes") \notin Numerals)
            \/ (IF Arg(call.arguments, "minutes") = "" THEN 0
                ELSE NumberOf(Arg(call.arguments, "minutes"))) <= 0
         THEN Returned(Result(FALSE, "increase_cooldown",
                  [NoError EXCEPT !.kind = "Missing or invalid parameters",
                                  !.detail = "habit_id (string), minutes (positive number)"]),
                  FALSE)
         ELSE LET minutes == NumberOf(Arg(call.arguments, "minutes"))
                  capped  == IF minutes < 120 THEN minutes ELSE 120
              IN [Returned(Result(TRUE, "increase_cooldown", NoError), FALSE) EXCEPT
                     !.store = setCooldown(habits, Arg(call.arguments, "habit_id"),
                                           capped, now)]

ALLOWED_FIELDS ==
    { "resistance_score", "friction_score", "streak_count", "completion_rate_7d",
      "metadata.clean_count", "metadata.dirty_count", "metadata.avg_clothes_per_session" }

\* the value of the model's calls is a numeral, which the handler turns into a number
handleUpdateHabitState(call) ==
    IF ~call.hasArgs THEN Threw(TypeErrorUndefined)
    ELSE IF \/ ~Truthy(call.arguments, "habit_id")
            \/ ~Truthy(call.arguments, "field")
            \/ ~Has(call.arguments, "value")
         THEN Returned(Result(FALSE, "update_habit_state",
                  [NoError EXCEPT !.kind = "Missing required parameters",
                                  !.detail = "habit_id, field, value"]), FALSE)
         ELSE IF Arg(call.arguments, "field") \notin ALLOWED_FIELDS
         THEN Returned(Result(FALSE, "update_habit_state",
                  [NoError EXCEPT !.kind = "Field is not in the allowed update list",
                                  !.detail = Arg(call.arguments, "field")]), FALSE)
         ELSE IF Missing(habits, Arg(call.arguments, "habit_id"))
         THEN Returned(Result(FALSE, "update_habit_state",
                  [NoError EXCEPT !.kind = "Habit not found",
                                  !.detail = Arg(call.arguments, "habit_id")]), FALSE)
         ELSE [Returned(Result(TRUE, "update_habit_state", NoError), FALSE) EXCEPT
                  !.store = updateHabitField(habits, Arg(call.arguments, "habit_id"),
                                             Arg(call.arguments, "field"),
                                             NumberOf(Arg(call.arguments, "value")))]

handleAdjustDifficulty(call) ==
    IF ~call.hasArgs THEN Threw(TypeErrorUndefined)
    ELSE IF \/ ~Truthy(call.arguments, "habit_id")
            \/ ~Truthy(call.arguments, "direction")
            \/ Arg(call.arguments, "direction") \notin { "easier", "harder" }
         THEN Returned(Result(FALSE, "adjust_difficulty",
                  [NoError EXCEPT !.kind = "Required",
                                  !.detail = "habit_id, direction, reason"]), FALSE)
         ELSE IF Missing(habits, Arg(call.arguments, "habit_id"))
         THEN Returned(Result(FALSE, "adjust_difficulty",
                  [NoError EXCEPT !.kind = "Habit not found",
                                  !.detail = Arg(call.arguments, "habit_id")]), FALSE)
         ELSE LET habit == habits[Arg(call.arguments, "habit_id")]
                  delta == IF Arg(call.arguments, "direction") = "easier"
                           THEN <<-1, 10>> ELSE <<1, 10>>
              IN [Returned(Result(TRUE, "adjust_difficulty", NoError), FALSE) EXCEPT
                     !.store = saveHabit(habits,
                         [habit EXCEPT !.resistance_score =
                             MaxF(Zero, MinF(One, AddF(@, delta)))])]


\* The handlers modelled; the calls the model makes name no other registered tool.
ModelledTools == { "delay_nudge", "suggest_habit_stack", "fetch_google_calendar",
                   "send_nudge", "increase_cooldown", "update_habit_state",
                   "adjust_difficulty" }

RunHandler(call, signedIn, fetchOk) ==
    CASE call.name = "delay_nudge"           -> handleDelayNudge(call)
      [] call.name = "suggest_habit_stack"   -> handleSuggestHabitStack(call)
      [] call.name = "fetch_google_calendar" -> handleFetchGoogleCalendar(call, signedIn, fetchOk)
      [] call.name = "send_nudge"            -> handleSendNudge(call)
      [] call.name = "increase_cooldown"     -> handleIncreaseCooldown(call)
      [] call.name = "update_habit_state"    -> handleUpdateHabitState(call)
      [] call.name = "adjust_difficulty"     -> handleAdjustDifficulty(call)

----------------------------------------------------------------------------
\* ToolExecutor.execute

\* TOOL_HANDLERS[toolCall.name]: "own", "inherited" or "undefined"
Lookup(name) ==
    IF name \in Range(TOOL_HANDLERS) THEN "own"
    ELSE IF name \in InheritedCallables THEN "inherited"
    ELSE IF name \in InheritedThrowing THEN "inherited throwing"
    ELSE "undefined"

TypeErrorNoReceiver == "TypeError: Cannot convert undefined or null to object"

\* What the promise of execute(call) settles to.  result: the value it resolves
\* to; escaped: the error it rejects with ("" when it resolves); ran: the
\* registered handler it invoked ("" for none); thrown: what the function it
\* dispatched to threw ("" for nothing); nudged: a notification was pushed;
\* store: the habit map afterwards.
Outcome(result, ran, thrown, nudged) ==
    [ result |-> result, escaped |-> "", ran |-> ran, thrown |-> thrown, nudged |-> nudged,
      store |-> habits ]

\* a variant of execute without its catch clause: the handler's error escapes
Execute_WithoutCatch(call, signedIn, fetchOk) ==
    LET handler == Lookup(call.name) IN
    IF handler = "undefined"
    THEN Outcome(Result(FALSE, call.name,
                        [kind |-> "Unknown tool", detail |-> call.name,
                         available |-> TOOL_HANDLERS]), "", "", FALSE)
    ELSE IF handler = "inherited"
    THEN Outcome(NotAResult, "", "", FALSE)
    ELSE IF handler = "inherited throwing"
    THEN [Outcome(NullResult, "", TypeErrorNoReceiver, FALSE)
             EXCEPT !.escaped = TypeErrorNoReceiver]
    ELSE LET h == RunHandler(call, signedIn, fetchOk) IN
         IF h.threw
         THEN [Outcome(NullResult, call.name, h.err, h.nudged) EXCEPT !.escaped = h.err,
                                                                      !.store = h.store]
         ELSE [Outcome(h.result, call.name, "", h.nudged) EXCEPT !.store = h.store]

Execute(call, signedIn, fetchOk) ==
    LET handler == Lookup(call.name) IN
    IF handler = "undefined"
    THEN Outcome(Result(FALSE, call.name,
                        [kind |-> "Unknown tool", detail |-> call.name,
                         available |-> TOOL_HANDLERS]), "", "", FALSE)
    ELSE IF handler = "inherited"
    THEN \* Object(args) returns an object that is no ToolResult; nothing throws
         Outcome(NotAResult, "", "", FALSE)
    ELSE IF handler = "inherited throwing"
    THEN Outcome(Result(FALSE, call.name,
                        [NoError EXCEPT !.kind = "Execution error",
                                        !.detail = TypeErrorNoReceiver]),
                 "", TypeErrorNoReceiver, FALSE)
    ELSE LET h == RunHandler(call, signedIn, fetchOk) IN
         IF h.threw
         THEN [Outcome(Result(FALSE, call.name,
                              [NoError EXCEPT !.kind = "Execution error", !.detail = h.err]),
                       call.name, h.err, h.nudged) EXCEPT !.store = h.store]
         ELSE [Outcome(h.result, call.name, "", h.nudged) EXCEPT !.store = h.store]

----------------------------------------------------------------------------
\* HybridRouter

COMPLEXITY_THRESHOLD_LOCAL == 40
BATTERY_LOW_THRESHOLD      == 15

\* avgLatency(arr) as the fraction <<numerator, denominator>>
avgLatency(arr) == IF Len(arr) = 0 THEN <<5000, 1>> ELSE <<SumSeq(arr), Len(arr)>>

\* a < b * 0.7 for fractions a, b
LessThan70Percent(a, b) == a[1] * b[2] * 10 < b[1] * a[2] * 7

scorePromptComplexity(f) ==
    LET score == 20 + (IF f.hasHealth THEN 15 ELSE 0)
                    + (IF f.hasCalendar THEN 10 ELSE 0)
                    + (IF f.hasMeeting THEN 10 ELSE 0)
                    + (IF f.isDoomScrolling THEN 5 ELSE 0)
                    + (IF f.habitCount > 3 THEN 10 ELSE 0)
                    + (IF f.hasRecoveryHabit THEN 10 ELSE 0)
                    + (IF f.hasMilestone THEN 15 ELSE 0)
    IN IF score < 100 THEN score ELSE 100

\* a variant of routeDecision that looks at the prompt's complexity before the
\* connectivity
routeDecision_ComplexityFirst(ctx) ==
    IF ctx.prompt_complexity > 70 THEN "cloud"
    ELSE IF ~ctx.is_connected THEN "local"
    ELSE IF ctx.battery_level < BATTERY_LOW_THRESHOLD THEN "local"
    ELSE IF ctx.prompt_complexity < COMPLEXITY_THRESHOLD_LOCAL /\ localFailures = 0 THEN "local"
    ELSE IF LessThan70Percent(avgLatency(recentLocalLatencies),
                              avgLatency(recentCloudLatencies)) /\ localFailures = 0
         THEN "local"
    ELSE "cloud"

\* a variant of routeDecision whose latency comparison ignores the local failures
routeDecision_IgnoresFailures(ctx) ==
    IF ~ctx.is_connected THEN "local"
    ELSE IF ctx.battery_level < BATTERY_LOW_THRESHOLD THEN "local"
    ELSE IF ctx.prompt_complexity < COMPLEXITY_THRESHOLD_LOCAL /\ localFailures = 0 THEN "local"
    ELSE IF ctx.prompt_complexity > 70 THEN "cloud"
    ELSE IF LessThan70Percent(avgLatency(recentLocalLatencies),
                              avgLatency(recentCloudLatencies))
         THEN "local"
    ELSE "cloud"

\* ctx: is_connected, battery_level, prompt_complexity (the other fields of a
\* RoutingContext are not read)
routeDecision(ctx) ==
    IF ~ctx.is_connected THEN "local"
    ELSE IF ctx.battery_level < BATTERY_LOW_THRESHOLD THEN "local"
    ELSE IF ctx.prompt_complexity < COMPLEXITY_THRESHOLD_LOCAL /\ localFailures = 0 THEN "local"
    ELSE LET avgLocal == avgLatency(recentLocalLatencies)
             avgCloud == avgLatency(recentCloudLatencies)
         IN IF ctx.prompt_complexity > 70 THEN "cloud"
            ELSE IF LessThan70Percent(avgLocal, avgCloud) /\ localFailures = 0 THEN "local"
            ELSE "cloud"

\* push without the shift: the window keeps growing
Push10_NoShift(arr, ms) == Append(arr, ms)

\* push, then shift while more than 10 samples are held
Push10(arr, ms) == LET a == Append(arr, ms) IN IF Len(a) > 10 THEN Tail(a) ELSE a

\* inputs of the router's callers
LatencySamples    == { 1000, 9000 }
BatteryLevels     == { 10, 15, 80 }
PromptComplexities == { 20, 40, 55, 70, 85 }
RoutingContexts ==
    [ is_connected : BOOLEAN, battery_level : BatteryLevels,
      prompt_complexity : PromptComplexities ]

\* the samples of a window that the callers modelled here recorded
Recorded(arr) == Cardinality({ i \in 1..Len(arr) : arr[i] \in LatencySamples })

\* windows as earlier calls left them: n samples of 10, 20, ... ms
EarlierWindows == { [ i \in 1..n |-> 10 * i ] : n \in { 0, 9, 10 } }

recordLatency(path, ms) ==
    /\ turn = 0
    /\ Recorded(recentLocalLatencies) + Recorded(recentCloudLatencies) < MaxSamples
    /\ IF path = "local"
       THEN /\ recentLocalLatencies' = Push10(recentLocalLatencies, ms)
            /\ UNCHANGED recentCloudLatencies
       ELSE /\ recentCloudLatencies' = Push10(recentCloudLatencies, ms)
            /\ UNCHANGED recentLocalLatencies
    /\ UNCHANGED <<platformVars, partVars, habitVars, runtimeVars, modelReady, localFailures, cloudFailures,
                   lastRoute, nudgeHistory, lastExec, loopVars>>

recordFailure(path) ==
    /\ turn = 0
    /\ IF path = "local"
       THEN /\ localFailures < MaxFailures
            /\ localFailures' = localFailures + 1
            /\ UNCHANGED cloudFailures
       ELSE /\ cloudFailures < MaxFailures
            /\ cloudFailures' = cloudFailures + 1
            /\ UNCHANGED localFailures
    /\ UNCHANGED <<platformVars, partVars, habitVars, runtimeVars, modelReady, recentLocalLatencies,
                   recentCloudLatencies, lastRoute, nudgeHistory, lastExec, loopVars>>

\* recordSuccess without Math.max(0, ...)
recordSuccess_Unbounded(path) ==
    /\ turn = 0
    /\ IF path = "local"
       THEN /\ localFailures > 0 - MaxFailures
            /\ localFailures' = localFailures - 1
            /\ UNCHANGED cloudFailures
       ELSE /\ cloudFailures > 0 - MaxFailures
            /\ cloudFailures' = cloudFailures - 1
            /\ UNCHANGED localFailures
    /\ UNCHANGED <<platformVars, partVars, habitVars, runtimeVars, modelReady, recentLocalLatencies,
                   recentCloudLatencies, lastRoute, nudgeHistory, lastExec, loopVars>>

recordSuccess(path) ==
    /\ turn = 0
    /\ IF path = "local"
       THEN /\ localFailures' = (IF localFailures - 1 > 0 THEN localFailures - 1 ELSE 0)
            /\ UNCHANGED cloudFailures
       ELSE /\ cloudFailures' = (IF cloudFailures - 1 > 0 THEN cloudFailures - 1 ELSE 0)
            /\ UNCHANGED localFailures
    /\ UNCHANGED <<platformVars, partVars, habitVars, runtimeVars, modelReady, recentLocalLatencies,
                   recentCloudLatencies, lastRoute, nudgeHistory, lastExec, loopVars>>

\* a direct call routeDecision(ctx); seq flips with every call
RouteDecisionCall(ctx) ==
    /\ turn = 0
    /\ lastRoute' = [ctx |-> ctx, decision |-> routeDecision(ctx), seq |-> 1 - lastRoute.seq]
    /\ UNCHANGED <<platformVars, partVars, habitVars, runtimeVars, modelReady, routerVars,
                   nudgeHistory, lastExec, loopVars>>

----------------------------------------------------------------------------
\* Inference backends: what they deliver and how it is normalised

DelayCall    == Call("delay_nudge", { <<"habit_id", "gym">>, <<"reason", "busy">> })
StackNoMsg   == Call("suggest_habit_stack",
                     { <<"primary_habit_id", "gym">>, <<"stacked_habit_id", "reading">> })
StackCall    == Call("suggest_habit_stack",
                     { <<"primary_habit_id", "gym">>, <<"stacked_habit_id", "reading">>,
                       <<"message", "stretch after gym">> })

\* The texts a backend may answer with.  For each: the matches of
\* /call:(\w+)\{([^}]*)\}/g in order, each with its name and the key:value
\* pairs between the braces, and what JSON.parse(raw.trim()) gives.
Match(name, body) == [ name |-> name, body |-> body ]
NotJson == [ kind |-> "SyntaxError", name |-> "", hasArguments |-> FALSE, arguments |-> {} ]
JsonNull == [ kind |-> "null", name |-> "", hasArguments |-> FALSE, arguments |-> {} ]
JsonObject(name, hasArguments, arguments) ==
    [ kind |-> "object", name |-> name, hasArguments |-> hasArguments,
      arguments |-> arguments ]
Form(matches, json) == [ matches |-> matches, json |-> json ]

CallText     == "call:delay_nudge{habit_id:gym,reason:busy}"
PlainText    == "not now"
EmptyCall    == "call:delay_nudge{}"
TwoCalls     == "call:wait{} call:delay_nudge{habit_id:gym,reason:busy}"
JsonText     == "{\"name\":\"delay_nudge\",\"arguments\":{\"habit_id\":\"gym\",\"reason\":\"busy\"}}"
JsonNoArgs   == "{\"name\":\"delay_nudge\"}"
JsonNullText == "null"
JsonQuoting  == "{\"name\":\"delay_nudge\",\"arguments\":{\"habit_id\":\"gym\",\"reason\":\"call:send_nudge{habit_id:gym}\"}}"
JsonQuotingEmpty == "{\"name\":\"delay_nudge\",\"arguments\":{\"habit_id\":\"gym\",\"reason\":\"call:wait{}\"}}"

SampleTexts == { CallText, PlainText, EmptyCall, TwoCalls, JsonText, JsonNoArgs,
                 JsonNullText, JsonQuoting, JsonQuotingEmpty }

Syntax(raw) ==
    CASE raw = CallText ->
             Form(<< Match("delay_nudge", << <<"habit_id", "gym">>, <<"reason", "busy">> >>) >>,
                  NotJson)
      [] raw = PlainText -> Form(<< >>, NotJson)
      [] raw = "" -> Form(<< >>, NotJson)
      [] raw = EmptyCall -> Form(<< Match("delay_nudge", << >>) >>, NotJson)
      [] raw = TwoCalls ->
             Form(<< Match("wait", << >>),
                     Match("delay_nudge", << <<"habit_id", "gym">>, <<"reason", "busy">> >>) >>,
                  NotJson)
      [] raw = JsonText ->
             Form(<< >>, JsonObject("delay_nudge", TRUE,
                                    { <<"habit_id", "gym">>, <<"reason", "busy">> }))
      [] raw = JsonNoArgs -> Form(<< >>, JsonObject("delay_nudge", FALSE, {}))
      [] raw = JsonNullText -> Form(<< >>, JsonNull)
      [] raw = JsonQuoting ->
             Form(<< Match("send_nudge", << <<"habit_id", "gym">> >>) >>,
                  JsonObject("delay_nudge", TRUE,
                             { <<"habit_id", "gym">>,
                               <<"reason", "call:send_nudge{habit_id:gym}">> }))
      [] raw = JsonQuotingEmpty ->
             Form(<< Match("wait", << >>) >>,
                  JsonObject("delay_nudge", TRUE,
                             { <<"habit_id", "gym">>, <<"reason", "call:wait{}">> }))

\* parseCallArgs: one entry per key, a later value replacing an earlier one
parseCallArgs(body) ==
    { body[i] : i \in { i \in DOMAIN body :
                           \A j \in DOMAIN body : j > i => body[j][1] # body[i][1] } }

\* the single JSON object form: parsed.name && parsed.arguments; reading a
\* property of null throws, which is caught
parseJsonForm(json) ==
    IF json.kind = "object" /\ json.name # "" /\ json.hasArguments
    THEN << Call(json.name, json.arguments) >>
    ELSE << >>

\* the call: matches that have at least one argument, as calls
parseCallForm(matches) ==
    LET kept == SelectSeq(matches, LAMBDA m : parseCallArgs(m.body) # {})
    IN [ i \in DOMAIN kept |-> Call(kept[i].name, parseCallArgs(kept[i].body)) ]

\* a variant of the parser that tries the JSON form first
parseFunctionGemmaOutput_JsonFirst(raw) ==
    IF Len(parseJsonForm(Syntax(raw).json)) > 0
    THEN parseJsonForm(Syntax(raw).json)
    ELSE parseCallForm(Syntax(raw).matches)

parseFunctionGemmaOutput(raw) ==
    IF Len(parseCallForm(Syntax(raw).matches)) > 0
    THEN parseCallForm(Syntax(raw).matches)
    ELSE parseJsonForm(Syntax(raw).json)

Response(ok, text, calls, conf, src) ==
    [ success |-> ok, response |-> text, function_calls |-> calls,
      confidence |-> conf, source |-> src ]
NullResponse == Response(FALSE, "", <<>>, 0, "none")

\* a functionCall part without args gets args ?? {}
WithDefaultArgs(call) == IF call.hasArgs THEN call ELSE Call(call.name, {})

parseGeminiResponse(data) ==
    LET structured == [ i \in DOMAIN data.calls |-> WithDefaultArgs(data.calls[i]) ]
        functionCalls == IF Len(structured) = 0 /\ data.text # ""
                         THEN parseFunctionGemmaOutput(data.text)
                         ELSE structured
    IN Response(TRUE, data.text, functionCalls,
                IF Len(functionCalls) > 0 THEN 90 ELSE 30, "rest")

parseCactusResult(result, src) ==
    LET functionCalls == IF Len(result.calls) = 0 /\ result.text # ""
                         THEN parseFunctionGemmaOutput(result.text)
                         ELSE result.calls
    IN Response(result.success, result.text, functionCalls,
                IF Len(functionCalls) > 0 THEN 85 ELSE 30, src)

\* a variant of the fallback that reports the failure instead of deferring
FallbackResponse_ReportsFailure(hasAnyKey, ready) ==
    Response(FALSE, "", << >>, 30, "fallback")

\* the response built when nothing worked
FallbackResponse(hasAnyKey, ready) ==
    LET reason == IF ~hasAnyKey THEN "no API key configured"
                  ELSE IF ready THEN "both cloud and local failed"
                  ELSE "local model still loading"
    IN Response(TRUE, "",
                << Call("delay_nudge", { <<"habit_id", "unknown">>, <<"reason", reason>> }) >>,
                10, "fallback")

\* what a backend delivers when it does not fail
Raw(ok, calls, text) == [ success |-> ok, calls |-> calls, text |-> text ]
GeminiOutputs ==
    { Raw(TRUE, << DelayCall, StackCall >>, ""),
      Raw(TRUE, << StackNoMsg, DelayCall >>, ""),
      Raw(TRUE, << >>, "not now") }
CactusOutputs ==
    { Raw(TRUE, << CallNoArgs("fetch_google_calendar") >>, ""),
      Raw(TRUE, << CallNoArgs("delay_nudge") >>, ""),
      Raw(FALSE, << DelayCall >>, "") }

----------------------------------------------------------------------------
\* FunctionGemmaClient.validateToolCall; "throws" when the in operator is applied
\* to undefined arguments

\* a variant of validateToolCall that checks the name only
validateToolCall_NameOnly(call) ==
    IF call.name \in DOMAIN TOOL_DEFINITIONS THEN "valid" ELSE "invalid"

validateToolCall(call) ==
    IF call.name \notin DOMAIN TOOL_DEFINITIONS THEN "invalid"
    ELSE LET required == TOOL_DEFINITIONS[call.name] IN
         IF required = {} THEN "valid"
         ELSE IF ~call.hasArgs THEN "throws"
         ELSE IF \A param \in required : Has(call.arguments, param) THEN "valid"
         ELSE "invalid"

----------------------------------------------------------------------------
\* FunctionGemmaClient and CactusRuntime: lifecycle

\* every action below changes only what it names
OnlyRuntime == UNCHANGED <<platformVars, partVars, habitVars, routerVars, lastRoute, nudgeHistory, lastExec, loopVars>>
OnlyCycle   == UNCHANGED <<platformVars, partVars, habitVars, runtimeVars, modelReady, routerVars, lastRoute,
                           nudgeHistory, lastExec, agent_history, listeners>>

\* FunctionGemmaClient.initialize: setCactusToken when a token is configured, then
\* CactusRuntime.initialize
initialize ==
    /\ turn = 0
    /\ hybridAvailable' = (hybridAvailable \/ cactusTokenSet)
    /\ isLoaded' = TRUE
    /\ isNative' = (IF isLoaded THEN isNative ELSE nativeAvailable)
    /\ modelReady' = TRUE
    /\ UNCHANGED <<nativeReady, lm, geminiApiKey, isDownloading>>
    /\ OnlyRuntime

\* CactusRuntime.unload
unload ==
    /\ turn = 0
    /\ lm' = FALSE
    /\ isLoaded' = FALSE
    /\ isNative' = FALSE
    /\ nativeReady' = FALSE
    /\ UNCHANGED <<hybridAvailable, geminiApiKey, isDownloading, modelReady>>
    /\ OnlyRuntime

\* FunctionGemmaClient.shutdown
shutdown ==
    /\ turn = 0
    /\ lm' = FALSE
    /\ isLoaded' = FALSE
    /\ isNative' = FALSE
    /\ nativeReady' = FALSE
    /\ modelReady' = FALSE
    /\ UNCHANGED <<hybridAvailable, geminiApiKey, isDownloading>>
    /\ OnlyRuntime

setGeminiApiKey ==
    /\ turn = 0
    /\ ~geminiApiKey
    /\ geminiApiKey' = TRUE
    /\ UNCHANGED <<isLoaded, isNative, nativeReady, lm, hybridAvailable, isDownloading, modelReady>>
    /\ OnlyRuntime

----------------------------------------------------------------------------
\* AgentLoop

subscribe(l) ==
    /\ turn = 0
    /\ l \notin listeners
    /\ listeners' = listeners \cup {l}
    /\ UNCHANGED <<platformVars, partVars, habitVars, runtimeVars, modelReady, routerVars, lastRoute,
                   nudgeHistory, lastExec, agent_history, cy, turn>>

unsubscribe(l) ==
    /\ turn = 0
    /\ l \in listeners
    /\ listeners' = listeners \ {l}
    /\ UNCHANGED <<platformVars, partVars, habitVars, runtimeVars, modelReady, routerVars, lastRoute,
                   nudgeHistory, lastExec, agent_history, cy, turn>>

AgentTriggers == { "interval" }

IdleCycle ==
    [ pc |-> "idle", trigger |-> "", route |-> "",
      isOnline |-> FALSE, attempts |-> <<>>, inference |-> "none",
      response |-> NullResponse, decideThrew |-> FALSE,
      raw_response |-> "", tool_call |-> NullCall, tool_result |-> NullResult,
      handlerRuns |-> <<>>, steps |-> <<>>, emitted |-> {} ]

\* the AgentCycleResult that cycle c builds from its locals
CycleResult(c) ==
    [ trigger |-> cy[c].trigger, raw_response |-> cy[c].raw_response,
      tool_call |-> cy[c].tool_call, tool_result |-> cy[c].tool_result,
      routing_decision |-> cy[c].route ]

Step(c, name) == Append(cy[c].steps, name)

\* runCycle up to its first await: getContextSnapshot, then recalculateAll is called.
\* What the snapshot holds is drawn where it is read, in the routing step.
StartCycle(c, trigger) ==
    /\ turn = 0
    /\ cy[c].pc = "idle"
    /\ \A d \in Cycles : d < c => cy[d].pc # "idle"       \* the first free record
    /\ cy' = [cy EXCEPT ![c].pc = "recalc", ![c].trigger = trigger,
                        ![c].steps = Step(c, "collect")]
    /\ UNCHANGED turn
    /\ OnlyCycle

\* habitEngine.recalculateAll resolves, or rejects because storage.saveHabit could
\* not write: AsyncStorageAdapter.setItem lets the exception of
\* window.localStorage.setItem through (the native branch swallows it).  What it
\* writes to the habits is followed by RecalculateAllCall; the cycle goes on with
\* the features drawn in Route.
Recalculate(c) ==
    /\ turn = 0
    /\ cy[c].pc = "recalc"
    /\ \/ /\ cy' = [cy EXCEPT ![c].pc = "route", ![c].steps = Step(c, "recompute")]
          /\ turn' = c
       \/ /\ cy' = [cy EXCEPT ![c].pc = "rejected"]
          /\ turn' = c
    /\ OnlyCycle

\* the features runCycle derives from the context and the habits
Features(health, calendar, meeting, doom, count, recovery, milestone) ==
    [ hasHealth |-> health, hasCalendar |-> calendar, hasMeeting |-> meeting,
      isDoomScrolling |-> doom, habitCount |-> count, hasRecoveryHabit |-> recovery,
      hasMilestone |-> milestone ]
ContextFeatures ==
    { Features(FALSE, FALSE, FALSE, FALSE, 2, FALSE, FALSE),
      Features(TRUE, TRUE, FALSE, FALSE, 4, FALSE, FALSE),
      Features(TRUE, TRUE, TRUE, TRUE, 4, TRUE, TRUE) }

Route(c) ==
    /\ turn = c
    /\ cy[c].pc = "route"
    /\ \E f \in ContextFeatures, connected \in BOOLEAN, battery \in { 10, 80 } :
          cy' = [cy EXCEPT ![c].pc = "decide", ![c].steps = Step(c, "route"),
                           ![c].route = routeDecision(
                               [ is_connected |-> connected,
                                 battery_level |-> battery,
                                 prompt_complexity |-> scorePromptComplexity(f) ])]
    /\ UNCHANGED turn
    /\ OnlyCycle

\* decide() is called; it throws when the client is not ready, and complete()
\* throws when the runtime is not loaded; runCycle catches both
Decide(c) ==
    /\ turn = c
    /\ cy[c].pc = "decide"
    /\ IF ~modelReady
       THEN cy' = [cy EXCEPT ![c].pc = "execute", ![c].steps = Step(c, "infer"),
                             ![c].decideThrew = TRUE,
                             ![c].raw_response = "ERROR: Error: FunctionGemma not initialized."]
       ELSE IF ~isLoaded
       THEN cy' = [cy EXCEPT ![c].pc = "execute", ![c].steps = Step(c, "infer"),
                             ![c].decideThrew = TRUE, ![c].inference = "threw",
                             ![c].raw_response = "ERROR: Error: Model not loaded. Call initialize() first."]
       ELSE \E online \in BOOLEAN :
              cy' = [cy EXCEPT ![c].pc = "path1", ![c].steps = Step(c, "infer"),
                               ![c].inference = "running", ![c].isOnline = online]
    /\ UNCHANGED turn
    /\ OnlyCycle

----------------------------------------------------------------------------
\* CactusRuntime.complete, between its awaits

Attempt(c, backend, outcome) == Append(cy[c].attempts, <<backend, outcome>>)

\* complete() returns r: decide() goes on with it
Return(c, r, backend) ==
    [cy EXCEPT ![c].pc = "validate", ![c].response = r, ![c].inference = "returned",
               ![c].attempts = Attempt(c, backend, "ok")]

\* PATH 1: the Gemini REST call is started, if online and a key is set
Path1(c) ==
    /\ turn = c
    /\ cy[c].pc = "path1"
    /\ IF cy[c].isOnline /\ geminiApiKey
       THEN cy' = [cy EXCEPT ![c].pc = "rest_wait"] /\ turn' = 0
       ELSE cy' = [cy EXCEPT ![c].pc = "path2"] /\ UNCHANGED turn
    /\ OnlyCycle

\* geminiRestInference settles: a parsed response, or an error / abort after 20 s
RestDone(c) ==
    /\ turn = 0
    /\ cy[c].pc = "rest_wait"
    /\ \/ \E data \in GeminiOutputs : cy' = Return(c, parseGeminiResponse(data), "rest")
       \/ cy' = [cy EXCEPT ![c].pc = "path2", ![c].attempts = Attempt(c, "rest", "failed")]
    /\ turn' = c
    /\ OnlyCycle

\* a variant of PATH 2 that does not look at the connectivity
Path2_IgnoresConnectivity(c) ==
    /\ turn = c
    /\ cy[c].pc = "path2"
    /\ IF nativeReady /\ lm /\ hybridAvailable
       THEN cy' = [cy EXCEPT ![c].pc = "hybrid_wait"] /\ turn' = 0
       ELSE cy' = [cy EXCEPT ![c].pc = "path3"] /\ UNCHANGED turn
    /\ OnlyCycle

\* PATH 2: the hybrid call is started, if online, the model is loaded and a token is set
Path2(c) ==
    /\ turn = c
    /\ cy[c].pc = "path2"
    /\ IF cy[c].isOnline /\ nativeReady /\ lm /\ hybridAvailable
       THEN cy' = [cy EXCEPT ![c].pc = "hybrid_wait"] /\ turn' = 0
       ELSE cy' = [cy EXCEPT ![c].pc = "path3"] /\ UNCHANGED turn
    /\ OnlyCycle

\* cactusHybridInference settles; after a failure lm.stop() is awaited
HybridDone(c) ==
    /\ turn = 0
    /\ cy[c].pc = "hybrid_wait"
    /\ \/ /\ \E result \in CactusOutputs :
                cy' = Return(c, parseCactusResult(result, "hybrid"), "hybrid")
          /\ turn' = c
       \/ /\ cy' = [cy EXCEPT ![c].pc = "hybrid_stop",
                              ![c].attempts = Attempt(c, "hybrid", "failed")]
          /\ UNCHANGED turn
    /\ OnlyCycle

HybridStopped(c) ==
    /\ turn = 0
    /\ cy[c].pc = "hybrid_stop"
    /\ cy' = [cy EXCEPT ![c].pc = "path3"]
    /\ turn' = c
    /\ OnlyCycle

\* PATH 3: offline with a native module, the model is loaded first
\* (ensureNativeModelLoaded)
Path3(c) ==
    /\ turn = c
    /\ cy[c].pc = "path3"
    /\ IF ~cy[c].isOnline /\ isNative /\ ~(nativeReady /\ lm) /\ nativeAvailable
       THEN /\ lm' = TRUE
            /\ isDownloading' = TRUE
            /\ cy' = [cy EXCEPT ![c].pc = "load_wait"]
            /\ turn' = 0
       ELSE /\ cy' = [cy EXCEPT ![c].pc = "local"]
            /\ UNCHANGED <<lm, isDownloading, turn>>
    /\ UNCHANGED <<platformVars, partVars, habitVars, isLoaded, isNative, nativeReady, hybridAvailable, geminiApiKey,
                   modelReady, routerVars, lastRoute, nudgeHistory, lastExec,
                   agent_history, listeners>>

\* download() and init() settle: the model is ready, or the load failed (also when
\* unload() cleared lm meanwhile)
LoadDone(c) ==
    /\ turn = 0
    /\ cy[c].pc = "load_wait"
    /\ \/ /\ lm
          /\ nativeReady' = TRUE
          /\ UNCHANGED lm
       \/ /\ lm' = FALSE
          /\ nativeReady' = FALSE
    /\ isDownloading' = FALSE
    /\ cy' = [cy EXCEPT ![c].pc = "local"]
    /\ turn' = c
    /\ UNCHANGED <<platformVars, partVars, habitVars, isLoaded, isNative, hybridAvailable, geminiApiKey,
                   modelReady, routerVars, lastRoute, nudgeHistory, lastExec,
                   agent_history, listeners>>

\* the local call is started if the model is ready
Local(c) ==
    /\ turn = c
    /\ cy[c].pc = "local"
    /\ IF nativeReady /\ lm
       THEN cy' = [cy EXCEPT ![c].pc = "local_wait"] /\ turn' = 0
       ELSE cy' = [cy EXCEPT ![c].pc = "fallback"] /\ UNCHANGED turn
    /\ OnlyCycle

LocalDone(c) ==
    /\ turn = 0
    /\ cy[c].pc = "local_wait"
    /\ \/ /\ \E result \in CactusOutputs :
                cy' = Return(c, parseCactusResult(result, "local"), "local")
          /\ turn' = c
       \/ /\ cy' = [cy EXCEPT ![c].pc = "local_stop",
                              ![c].attempts = Attempt(c, "local", "failed")]
          /\ UNCHANGED turn
    /\ OnlyCycle

LocalStopped(c) ==
    /\ turn = 0
    /\ cy[c].pc = "local_stop"
    /\ cy' = [cy EXCEPT ![c].pc = "fallback"]
    /\ turn' = c
    /\ OnlyCycle

\* nothing worked
Fallback(c) ==
    /\ turn = c
    /\ cy[c].pc = "fallback"
    /\ cy' = [cy EXCEPT ![c].pc = "validate", ![c].inference = "returned",
                        ![c].response = FallbackResponse(geminiApiKey \/ hybridAvailable,
                                                         nativeReady)]
    /\ UNCHANGED turn
    /\ OnlyCycle

----------------------------------------------------------------------------
\* CactusRuntime with the _inferring flag and the native failure counter
\* (core/cactus/CactusRuntime.ts, and the copy with a lower limit that needs the
\* hybrid token and keeps the counter on success)

OnlyGuarded == UNCHANGED <<platformVars, runtimeVars, modelReady, routerVars, lastRoute,
                           nudgeHistory, lastExec, loopVars, habitVars, laundryVars,
                           notificationVars, lastRecent, timerVars, overlapVars,
                           parseVars, build>>

Builds == { "paths", "core", "demo" }
Requests == 1..MaxRequests

MAX_NATIVE_FAILURES == 3
MAX_NATIVE_FAILURES_DEMO == 2
NativeFailureLimit == IF build = "demo" THEN MAX_NATIVE_FAILURES_DEMO ELSE MAX_NATIVE_FAILURES

NoCall == [ pc |-> "idle", answer |-> "none" ]
Answered(answer) == [ pc |-> "returned", answer |-> answer ]

initializeGuarded ==
    /\ ~guarded.isLoaded
    /\ IF ~nativeAvailable
       THEN guarded' = [guarded EXCEPT !.isLoaded = TRUE, !.isNative = FALSE]
       ELSE \/ guarded' = [guarded EXCEPT !.lm = TRUE, !.isLoaded = TRUE, !.isNative = TRUE]
            \/ guarded' = [guarded EXCEPT !.lm = FALSE, !.isLoaded = TRUE, !.isNative = FALSE]
    /\ UNCHANGED <<completions, generating>>
    /\ OnlyGuarded

\* setCactusToken: only the copy has it; it needs the native module's config class
setCactusToken ==
    /\ build = "demo"
    /\ nativeAvailable
    /\ ~guarded.hybridAvailable
    /\ guarded' = [guarded EXCEPT !.hybridAvailable = TRUE]
    /\ UNCHANGED <<completions, generating>>
    /\ OnlyGuarded

\* unload: lm.destroy() if there is a native model, then the fields are cleared;
\* neither _inferring nor _nativeFailures is touched
unloadGuarded ==
    /\ guarded.isLoaded
    /\ guarded' = [guarded EXCEPT !.lm = FALSE, !.isLoaded = FALSE, !.isNative = FALSE]
    /\ generating' = IF guarded.lm /\ guarded.isNative THEN {} ELSE generating
    /\ UNCHANGED completions
    /\ OnlyGuarded

\* the native section is entered
NativeWanted ==
    /\ guarded.isNative /\ guarded.lm
    /\ build = "demo" => guarded.hybridAvailable

\* complete() up to its first await, or to its return.  The two checks that
\* answer by the mock come in a different order in the two files; both lead to
\* mockComplete.
complete(r) ==
    /\ completions[r].pc = "idle"
    /\ IF ~guarded.isLoaded
       THEN completions' = [completions EXCEPT ![r] = Answered("threw")]
            /\ UNCHANGED <<guarded, generating>>
       ELSE IF guarded.nativeFailures >= NativeFailureLimit \/ guarded.inferring \/ ~NativeWanted
       THEN completions' = [completions EXCEPT ![r] = Answered("mock")]
            /\ UNCHANGED <<guarded, generating>>
       ELSE /\ completions' = [completions EXCEPT ![r].pc = "native_wait"]
            /\ guarded' = [guarded EXCEPT !.inferring = TRUE]
            /\ generating' = generating \cup { r }
    /\ OnlyGuarded

\* a variant of the success path that forgets the flag
NativeResolves_KeepsFlag(r) ==
    /\ completions[r].pc = "native_wait"
    /\ completions' = [completions EXCEPT ![r] = Answered("native")]
    /\ guarded' = [guarded EXCEPT !.nativeFailures = IF build = "core" THEN 0 ELSE @]
    /\ generating' = generating \ { r }
    /\ OnlyGuarded

\* lm.complete wins the race with a result: the flag is cleared; the counter is
\* reset in CactusRuntime.ts and left as it is in the copy
NativeResolves(r) ==
    /\ completions[r].pc = "native_wait"
    /\ completions' = [completions EXCEPT ![r] = Answered("native")]
    /\ guarded' = [guarded EXCEPT !.inferring = FALSE,
                                  !.nativeFailures = IF build = "core" THEN 0 ELSE @]
    /\ generating' = generating \ { r }
    /\ OnlyGuarded

\* the catch block up to await lm.stop(): the flag is cleared and the failure
\* counted before the stop is awaited.  With lm null (unload() ran) the call of
\* stop throws, which is swallowed, and the mock is returned at once.
\* goesOn: whether the native generation continues (timeout) or has ended (error)
Caught(r, goesOn) ==
    /\ completions[r].pc = "native_wait"
    /\ guarded' = [guarded EXCEPT !.inferring = FALSE, !.nativeFailures = @ + 1]
    /\ generating' = IF goesOn THEN generating ELSE generating \ { r }
    /\ completions' = [completions EXCEPT ![r] = IF guarded.lm THEN [ pc |-> "stop_wait", answer |-> "none" ]
                                      ELSE Answered("mock")]
    /\ OnlyGuarded

\* lm.complete rejects, or its result cannot be read
NativeRejects(r) == Caught(r, FALSE)

\* the 30 s (15 s) timer wins the race: lm.complete is not cancelled by that
NativeTimesOut(r) == Caught(r, TRUE)

\* lm.stop() resolves or rejects: the generation of this call has ended, and any
\* other on the same model with it; mockComplete is returned
StopSettles(r) ==
    /\ completions[r].pc = "stop_wait"
    /\ completions' = [completions EXCEPT ![r] = Answered("mock")]
    /\ \/ generating' = {}
       \/ generating' = generating \ { r }
    /\ UNCHANGED guarded
    /\ OnlyGuarded

\* the caller has taken the answer
Taken(r) ==
    /\ completions[r].pc = "returned"
    /\ completions' = [completions EXCEPT ![r] = NoCall]
    /\ UNCHANGED <<guarded, generating>>
    /\ OnlyGuarded

InitGuarded ==
    /\ guarded = [ isLoaded |-> FALSE, isNative |-> FALSE, lm |-> FALSE,
                   hybridAvailable |-> FALSE, inferring |-> FALSE, nativeFailures |-> 0 ]
    /\ completions = [ r \in Requests |-> NoCall ]
    /\ generating = {}

----------------------------------------------------------------------------
\* Normalisation of one backend result, followed up to decide()'s return value

OnlyParse == UNCHANGED <<platformVars, runtimeVars, modelReady, routerVars, lastRoute,
                         nudgeHistory, lastExec, loopVars, habitVars, laundryVars,
                         notificationVars, lastRecent, timerVars, overlapVars,
                         guardVars>>

\* decide() on a response: toolCall is null unless the response succeeded and
\* carries a call; the first call is validated
decide(response) ==
    LET verdict == IF ~response.success \/ Len(response.function_calls) = 0
                   THEN "none"
                   ELSE validateToolCall(response.function_calls[1])
    IN [ threw |-> verdict = "throws",
         toolCall |-> IF verdict = "valid" THEN response.function_calls[1] ELSE NullCall ]

NotNormalised ==
    [ called |-> FALSE, input |-> Raw(FALSE, << >>, ""), response |-> NullResponse,
      decision |-> [ threw |-> FALSE, toolCall |-> NullCall ] ]
Normalised(input, response) ==
    [ called |-> TRUE, input |-> input, response |-> response,
      decision |-> decide(response) ]

StructuredCalls == { << >>, << DelayCall >>, << CallNoArgs("delay_nudge"), DelayCall >> }
GeminiData == { Raw(TRUE, calls, text) : calls \in StructuredCalls,
                                         text \in SampleTexts \cup { "" } }
CactusResults == { Raw(ok, calls, text) : ok \in BOOLEAN, calls \in StructuredCalls,
                                          text \in SampleTexts \cup { "" } }

NormaliseGemini(data) ==
    /\ normalised' = [normalised EXCEPT !.rest = Normalised(data, parseGeminiResponse(data))]
    /\ OnlyParse

NormaliseCactus(result, src) ==
    /\ normalised' = [normalised EXCEPT
                         !.cactus = Normalised(result, parseCactusResult(result, src))]
    /\ OnlyParse

InitNormalised == normalised = [ rest |-> NotNormalised, cactus |-> NotNormalised ]

----------------------------------------------------------------------------
\* decide() after complete() has returned, and the rest of runCycle

\* decide(): no call unless the response succeeded and carries one; only the
\* first call is looked at.  A throw of validateToolCall is caught by runCycle.
Validate(c) ==
    /\ turn = c
    /\ cy[c].pc = "validate"
    /\ LET response == cy[c].response
           verdict  == IF ~response.success \/ Len(response.function_calls) = 0
                       THEN "none"
                       ELSE validateToolCall(response.function_calls[1])
       IN IF verdict = "throws"
          THEN cy' = [cy EXCEPT ![c].pc = "execute", ![c].steps = Step(c, "validate"),
                                ![c].decideThrew = TRUE,
                                ![c].raw_response = "ERROR: TypeError: Cannot use 'in' operator"]
          ELSE cy' = [cy EXCEPT ![c].pc = "execute", ![c].steps = Step(c, "validate"),
                                ![c].raw_response = response.response,
                                ![c].tool_call = IF verdict = "valid"
                                                 THEN response.function_calls[1]
                                                 ELSE NullCall]
    /\ UNCHANGED turn
    /\ OnlyCycle

CountNudge(n, nudged) == IF nudged /\ n < MaxNudges THEN n + 1 ELSE n

\* decide() has returned or thrown: its locals and those of complete() are gone
DecideLeft(rec) ==
    [rec EXCEPT !.response = NullResponse, !.attempts = <<>>, !.isOnline = FALSE,
                !.inference = "none"]

\* if (toolCallParsed) toolResult = await toolExecutor.execute(toolCallParsed)
ExecuteStep(c) ==
    /\ turn = c
    /\ cy[c].pc = "execute"
    /\ IF cy[c].tool_call # NullCall
       THEN \E signedIn \in BOOLEAN, fetchOk \in BOOLEAN :
               LET out == Execute(cy[c].tool_call, signedIn, fetchOk) IN
               /\ cy' = [cy EXCEPT ![c] =
                            [DecideLeft(@) EXCEPT !.pc = "append", !.steps = Step(c, "execute"),
                                                 !.tool_result = out.result,
                                                 !.handlerRuns = IF out.ran = "" THEN @
                                                                 ELSE Append(@, out.ran)]]
               /\ nudgeHistory' = CountNudge(nudgeHistory, out.nudged)
               /\ habits' = out.store
               /\ turn' = 0
       ELSE /\ cy' = [cy EXCEPT ![c] = [DecideLeft(@) EXCEPT !.pc = "append"]]
            /\ UNCHANGED <<nudgeHistory, habits, turn>>
    /\ UNCHANGED <<platformVars, partVars, runtimeVars, modelReady, routerVars, lastRoute,
                   lastExec, agent_history, listeners, now, lastOp, engineCalls>>

MAX_HISTORY_ENTRIES == 200

\* LocalStorageService.appendCycleResult up to its write
appendCycleResult(history, result) ==
    LET h == Append(history, result) IN
    IF Len(h) > MAX_HISTORY_ENTRIES
    THEN SubSeq(h, Len(h) - MAX_HISTORY_ENTRIES + 1, Len(h))
    ELSE h

\* the cycle result is built and pushed to the history; the write is awaited
AppendStep(c) ==
    /\ turn \in { 0, c }
    /\ cy[c].pc = "append"
    /\ agent_history' = appendCycleResult(agent_history, c)
    /\ cy' = [cy EXCEPT ![c].pc = "append_wait", ![c].steps = Step(c, "append")]
    /\ turn' = 0
    /\ UNCHANGED <<platformVars, partVars, habitVars, runtimeVars, modelReady, routerVars, lastRoute,
                   nudgeHistory, lastExec, listeners>>

\* the writes of appendCycleResult and setLastContext settle; a write that throws
\* (window.localStorage.setItem, not caught by the adapter) rejects runCycle
AppendDone(c) ==
    /\ turn = 0
    /\ cy[c].pc = "append_wait"
    /\ \/ /\ cy' = [cy EXCEPT ![c].pc = "notify"]
          /\ turn' = c
       \/ /\ cy' = [cy EXCEPT ![c].pc = "rejected"]
          /\ turn' = c
    /\ OnlyCycle

\* a variant of runCycle that notifies before it appends
Notify_BeforeAppend(c) ==
    /\ turn \in { 0, c }
    /\ cy[c].pc = "append"
    /\ cy' = [cy EXCEPT ![c].pc = "done", ![c].steps = Step(c, "notify"),
                        ![c].emitted = listeners]
    /\ turn' = c
    /\ UNCHANGED <<platformVars, partVars, habitVars, runtimeVars, modelReady, routerVars, lastRoute,
                   nudgeHistory, lastExec, agent_history, listeners>>

\* this.listeners.forEach((l) => l(cycleResult)); runCycle resolves
Notify(c) ==
    /\ turn = c
    /\ cy[c].pc = "notify"
    /\ cy' = [cy EXCEPT ![c].pc = "done", ![c].steps = Step(c, "notify"),
                        ![c].emitted = listeners]
    /\ UNCHANGED turn
    /\ UNCHANGED <<platformVars, partVars, habitVars, runtimeVars, modelReady, routerVars, lastRoute,
                   nudgeHistory, lastExec, agent_history, listeners>>

----------------------------------------------------------------------------
\* ToolExecutor.execute called directly

DirectCalls ==
    { DelayCall, StackCall, StackNoMsg,
      Call("delay_nudge", { <<"habit_id", "gym">> }),
      Call("delay_nudge", { <<"habit_id", "gym">>, <<"reason", "">> }),
      Call("delay_nudge", { <<"reason", "busy">> }),
      Call("suggest_habit_stack",
           { <<"primary_habit_id", "gym">>, <<"stacked_habit_id", "reading">>,
             <<"message", "">> }),
      Call("fetch_google_calendar", {}), CallNoArgs("fetch_google_calendar"),
      CallNoArgs("delay_nudge"), CallNoArgs("suggest_habit_stack"),
      Call("open_door", {}), Call("", {}), CallNoArgs("open_door"),
      Call("constructor", {}), Call("toString", {}), Call("valueOf", {}) }

NoExec == [ call |-> NullCall, result |-> NullResult, escaped |-> "", ran |-> "",
            thrown |-> "", runs |-> 0, nudged |-> FALSE, seq |-> 0 ]

ExecuteCall(call) ==
    /\ turn = 0
    /\ \E signedIn \in BOOLEAN, fetchOk \in BOOLEAN :
          LET out == Execute(call, signedIn, fetchOk) IN
          /\ lastExec' = [ call |-> call, result |-> out.result, escaped |-> out.escaped,
                           ran |-> out.ran, thrown |-> out.thrown,
                           runs |-> IF out.ran = "" THEN 0 ELSE 1,
                           nudged |-> out.nudged,
                           seq |-> 1 - lastExec.seq ]
          /\ nudgeHistory' = CountNudge(nudgeHistory, out.nudged)
          /\ habits' = out.store
    /\ UNCHANGED <<platformVars, partVars, runtimeVars, modelReady, routerVars, lastRoute, loopVars,
                   now, lastOp, engineCalls>>

----------------------------------------------------------------------------
\* HabitStateEngine called directly, and the clock

\* habits[id] ?? null reads a plain object: a name of Object.prototype yields the
\* inherited function, which is not null
getHabit(store, id) ==
    IF id \in DOMAIN store THEN "habit"
    ELSE IF id \in InheritedCallables \cup InheritedThrowing THEN "inherited"
    ELSE "null"

\* the last direct call: what it returned ("habit", "object", "null" or
\* "undefined"), what it threw ("" for nothing), and whether it saved an entry
NoOp == [ name |-> "", habitId |-> "", returned |-> "", threw |-> "", wrote |-> FALSE,
          seq |-> 0 ]
Op(name, habitId, returned, threw, wrote) ==
    [ name |-> name, habitId |-> habitId, returned |-> returned, threw |-> threw,
      wrote |-> wrote, seq |-> 1 - lastOp.seq ]

HabitIds      == { "gym", "ghost", "toString" }
NudgeOutcomes == { "completed", "dismissed" }
CooldownMinutes == { 60, 3 * RECENCY_HALF_LIFE_HOURS * 60 }

Context(isInEvent, isWeekend, hour, dayOfWeek, motionState, continuousScreenMinutes) ==
    [ isInEvent |-> isInEvent, isWeekend |-> isWeekend, hour |-> hour,
      dayOfWeek |-> dayOfWeek, motionState |-> motionState,
      continuousScreenMinutes |-> continuousScreenMinutes ]
ScoringContexts ==
    { Context(FALSE, FALSE, 10, 2, "still", 0),
      Context(TRUE, FALSE, 23, 4, "driving", 45),
      Context(FALSE, TRUE, 19, 6, "still", 45),
      Context(TRUE, FALSE, 6, 1, "walking", 0) }
AllContexts ==
    ScoringContexts \cup
    { Context(isInEvent, dayOfWeek \in { 0, 6 }, hour, dayOfWeek, motionState, 45) :
        isInEvent \in BOOLEAN, dayOfWeek \in { 4, 6 }, hour \in { 2, 6, 19 },
        motionState \in { "still", "driving" } }

\* habit maps with streak_count >= 0 and completion_rate_7d in [0, 1]
SampleOutcomes ==
    { << >>, <<"completed", "ignored">>, <<"dismissed", "snoozed", "null">> }
SampleStores ==
    { [ id \in DOMAIN DefaultHabits |->
          IF id = "gym"
          THEN [DefaultHabits[id] EXCEPT
                  !.streak_count = streak,
                  !.completion_rate_7d = rate,
                  !.last_completion_timestamp =
                      IF rate = Zero THEN Null ELSE RECENCY_HALF_LIFE_HOURS * 60,
                  !.recent_nudge_outcomes = outcomes]
          ELSE [DefaultHabits[id] EXCEPT !.metadata.clean_count = clean,
                                         !.recent_nudge_outcomes = outcomes] ] :
        streak \in { 0, 30 }, rate \in { Zero, One },
        outcomes \in SampleOutcomes, clean \in { 1, 7 } }

\* the engine's methods and the habit tools leave the agent alone; each call
\* replaces the record of the last one
OnlyHabits == UNCHANGED <<platformVars, partVars, runtimeVars, modelReady, routerVars, lastRoute,
                          loopVars>>

createDefaultHabits ==
    /\ turn = 0
    /\ habits' = [ id \in DOMAIN habits \cup DOMAIN DefaultHabits |->
                     IF id \in DOMAIN DefaultHabits THEN DefaultHabits[id] ELSE habits[id] ]
    /\ UNCHANGED <<now, lastOp, engineCalls, nudgeHistory, lastExec>>
    /\ OnlyHabits

\* time passes, in whole half-lives of the recency factor
Advance(k) ==
    /\ turn = 0
    /\ now + k * RECENCY_HALF_LIFE_HOURS * 60 <= (1 + MaxPeriods) * RECENCY_HALF_LIFE_HOURS * 60
    /\ now' = now + k * RECENCY_HALF_LIFE_HOURS * 60
    /\ UNCHANGED <<habits, lastOp, engineCalls, nudgeHistory, lastExec>>
    /\ OnlyHabits

RecalculateAllCall(context) ==
    /\ turn = 0
    /\ engineCalls < MaxCalls
    /\ engineCalls' = engineCalls + 1
    /\ habits' = recalculateAll(habits, context, now)
    /\ lastOp' = Op("recalculateAll", "", "habits", "", habits # << >>)
    /\ lastExec' = NoExec
    /\ UNCHANGED <<now, nudgeHistory>>
    /\ OnlyHabits

RecordCompletionCall(habitId) ==
    /\ turn = 0
    /\ engineCalls < MaxCalls
    /\ engineCalls' = engineCalls + 1
    /\ IF getHabit(habits, habitId) = "inherited"
       THEN \* the function is given the fields and saved under the key "undefined"
            /\ lastOp' = Op("recordCompletion", habitId, "object", "", TRUE)
            /\ UNCHANGED habits
       ELSE /\ habits' = recordCompletion(habits, habitId, now)
            /\ lastOp' = Op("recordCompletion", habitId,
                            IF Missing(habits, habitId) THEN "null" ELSE "habit", "",
                            ~Missing(habits, habitId))
    /\ lastExec' = NoExec
    /\ UNCHANGED <<now, nudgeHistory>>
    /\ OnlyHabits

RecordNudgeOutcomeCall(habitId, outcome) ==
    /\ turn = 0
    /\ engineCalls < MaxCalls
    /\ engineCalls' = engineCalls + 1
    /\ IF getHabit(habits, habitId) = "inherited"
       THEN \* habit.recent_nudge_outcomes is undefined
            /\ lastOp' = Op("recordNudgeOutcome", habitId, "", TypeErrorUndefined, FALSE)
            /\ UNCHANGED habits
       ELSE /\ habits' = recordNudgeOutcome(habits, habitId, outcome)
            /\ lastOp' = Op("recordNudgeOutcome", habitId, "undefined", "",
                            ~Missing(habits, habitId))
    /\ lastExec' = NoExec
    /\ UNCHANGED <<now, nudgeHistory>>
    /\ OnlyHabits

SetCooldownCall(habitId, minutes) ==
    /\ turn = 0
    /\ engineCalls < MaxCalls
    /\ engineCalls' = engineCalls + 1
    /\ IF getHabit(habits, habitId) = "inherited"
       THEN /\ lastOp' = Op("setCooldown", habitId, "undefined", "", TRUE)
            /\ UNCHANGED habits
       ELSE /\ habits' = setCooldown(habits, habitId, minutes, now)
            /\ lastOp' = Op("setCooldown", habitId, "undefined", "",
                            ~Missing(habits, habitId))
    /\ lastExec' = NoExec
    /\ UNCHANGED <<now, nudgeHistory>>
    /\ OnlyHabits

\* the calls of habit tools handed to the executor
Nudge(habitId) ==
    Call("send_nudge", { <<"habit_id", habitId>>, <<"tone", "gentle">>,
                         <<"message", "time to move">> })
Cooldown(habitId, minutes) ==
    Call("increase_cooldown", { <<"habit_id", habitId>>, <<"minutes", minutes>> })
Update(habitId, field, value) ==
    Call("update_habit_state", { <<"habit_id", habitId>>, <<"field", field>>,
                                 <<"value", value>> })
Adjust(habitId, direction) ==
    Call("adjust_difficulty", { <<"habit_id", habitId>>, <<"direction", direction>>,
                                <<"reason", "asked">> })
HabitCalls ==
    { Nudge("gym"), Nudge("ghost"),
      Call("send_nudge", { <<"habit_id", "gym">>, <<"tone", "gentle">> }),
      Cooldown("gym", "120"), Cooldown("gym", "30"), Cooldown("gym", "500"),
      Cooldown("gym", "-5"), Cooldown("gym", "soon"), Cooldown("ghost", "30"),
      Update("gym", "streak_count", "-5"), Update("gym", "completion_rate_7d", "7"),
      Update("gym", "resistance_score", "7"), Update("gym", "friction_score", "7"),
      Update("laundry", "metadata.clean_count", "1"),
      Update("gym", "momentum_score", "7"), Update("ghost", "streak_count", "1"),
      Adjust("gym", "easier"), Adjust("gym", "harder"), Adjust("gym", "sideways"),
      Adjust("ghost", "easier") }

\* toolExecutor.execute(call) for a habit tool
ExecuteHabitCall(call) ==
    /\ turn = 0
    /\ engineCalls < MaxCalls
    /\ engineCalls' = engineCalls + 1
    /\ \E signedIn \in BOOLEAN, fetchOk \in BOOLEAN :
          LET out == Execute(call, signedIn, fetchOk) IN
          /\ lastExec' = [ call |-> call, result |-> out.result, escaped |-> out.escaped,
                           ran |-> out.ran, thrown |-> out.thrown,
                           runs |-> IF out.ran = "" THEN 0 ELSE 1,
                           nudged |-> out.nudged,
                           seq |-> 1 - lastExec.seq ]
          /\ nudgeHistory' = CountNudge(nudgeHistory, out.nudged)
          /\ habits' = out.store
    /\ lastOp' = NoOp
    /\ UNCHANGED now
    /\ OnlyHabits

----------------------------------------------------------------------------
\* AgentLoop: start, stop, setIntervalMs and the timers.  What runCycle does once
\* it is called is followed by the cycle actions; here a call of it is recorded.
\* Intervals are in minutes.

OnlyTimers == UNCHANGED <<platformVars, runtimeVars, modelReady, routerVars, lastRoute,
                          nudgeHistory, lastExec, loopVars, habitVars, laundryVars,
                          notificationVars, lastRecent, overlapVars, parseVars,
                          guardVars>>

Timer(id, kind, jittered) == [ id |-> id, kind |-> kind, jittered |-> jittered ]

\* clearInterval(id); the id 0 stands for null
clearInterval(live, id) == { t \in live : t.id # id }

\* DEFAULT_SETTINGS, which storage.getSettings() resolves to
agent_interval_minutes   == 10
scroll_threshold_minutes == 15

NoStart == [ triggers |-> {}, by |-> "", seq |-> 0 ]

\* a callback has called runCycle with each of the triggers
RunCycle(triggers, by) == [ triggers |-> triggers, by |-> by, seq |-> 1 - lastStart.seq ]

\* start() up to its await
start ==
    /\ timerSeq + 3 * (starting + 1) + 1 <= MaxTimers
    /\ starting < MaxStarting
    /\ lastControl' = "start"
    /\ IF running
       THEN UNCHANGED <<running, starting>>
       ELSE running' = TRUE /\ starting' = starting + 1
    /\ UNCHANGED <<intervalMs, intervalTimer, scrollPollTimer, healthPollTimer, lastStepCount,
                   timers, timeouts, timerSeq, steps_today, scroll_minutes, exercised,
                   lastStart>>
    /\ OnlyTimers

\* getSettings() has resolved: the rest of start()
StartResumes ==
    /\ starting > 0
    /\ starting' = starting - 1
    /\ intervalMs' = agent_interval_minutes
    /\ intervalTimer' = timerSeq + 1
    /\ scrollPollTimer' = timerSeq + 2
    /\ healthPollTimer' = timerSeq + 3
    /\ timers' = timers \cup { Timer(timerSeq + 1, "interval", TRUE),
                               Timer(timerSeq + 2, "scroll", FALSE),
                               Timer(timerSeq + 3, "health", FALSE) }
    /\ timerSeq' = timerSeq + 3
    /\ lastStart' = RunCycle({ "interval" }, "start")
    /\ UNCHANGED <<running, lastStepCount, timeouts, steps_today, scroll_minutes, exercised,
                   lastControl>>
    /\ OnlyTimers

stop ==
    /\ running' = FALSE
    /\ timers' = clearInterval(clearInterval(clearInterval(timers, intervalTimer),
                                             scrollPollTimer), healthPollTimer)
    /\ intervalTimer' = 0
    /\ scrollPollTimer' = 0
    /\ healthPollTimer' = 0
    /\ lastControl' = "stop"
    /\ UNCHANGED <<intervalMs, lastStepCount, starting, timeouts, timerSeq, steps_today,
                   scroll_minutes, exercised, lastStart>>
    /\ OnlyTimers

IntervalChoices == { 5, 12 }

setIntervalMs(ms) ==
    /\ timerSeq + 3 * starting + 1 <= MaxTimers
    /\ intervalMs' = ms
    /\ IF running /\ intervalTimer # 0
       THEN /\ timers' = clearInterval(timers, intervalTimer)
                            \cup { Timer(timerSeq + 1, "interval", FALSE) }
            /\ intervalTimer' = timerSeq + 1
            /\ timerSeq' = timerSeq + 1
       ELSE UNCHANGED <<timers, intervalTimer, timerSeq>>
    /\ UNCHANGED <<running, scrollPollTimer, healthPollTimer, lastStepCount, starting,
                   timeouts, steps_today, scroll_minutes, exercised, lastStart, lastControl>>
    /\ OnlyTimers

\* trigger(reason), called from outside
ExternalTriggers == { "manual", "habit_completed" }
trigger(reason) ==
    /\ lastStart' = RunCycle({ reason }, "trigger")
    /\ UNCHANGED <<running, intervalMs, intervalTimer, scrollPollTimer, healthPollTimer,
                   lastStepCount, starting, timers, timeouts, timerSeq, steps_today,
                   scroll_minutes, exercised, lastControl>>
    /\ OnlyTimers

\* the interval timer's callback: start()'s sets a timeout of max(0, jitter),
\* setIntervalMs()'s calls runCycle itself
IntervalTick(t) ==
    /\ t \in timers /\ t.kind = "interval"
    /\ IF t.jittered
       THEN /\ timeouts < MaxTimeouts
            /\ timeouts' = timeouts + 1
            /\ UNCHANGED lastStart
       ELSE /\ lastStart' = RunCycle({ "interval" }, "interval timer")
            /\ UNCHANGED timeouts
    /\ UNCHANGED <<running, intervalMs, intervalTimer, scrollPollTimer, healthPollTimer,
                   lastStepCount, starting, timers, timerSeq, steps_today, scroll_minutes,
                   exercised, lastControl>>
    /\ OnlyTimers

\* a jitter timeout is due
TimeoutFires ==
    /\ timeouts > 0
    /\ timeouts' = timeouts - 1
    /\ lastStart' = RunCycle({ "interval" }, "timeout")
    /\ UNCHANGED <<running, intervalMs, intervalTimer, scrollPollTimer, healthPollTimer,
                   lastStepCount, starting, timers, timerSeq, steps_today, scroll_minutes,
                   exercised, lastControl>>
    /\ OnlyTimers

\* the scroll poll's callback, every 30 s
ScrollPoll(t) ==
    /\ t \in timers /\ t.kind = "scroll"
    /\ IF scroll_minutes >= scroll_threshold_minutes
       THEN lastStart' = RunCycle({ "prolonged_scrolling" }, "scroll poll")
       ELSE UNCHANGED lastStart
    /\ UNCHANGED <<running, intervalMs, intervalTimer, scrollPollTimer, healthPollTimer,
                   lastStepCount, starting, timers, timeouts, timerSeq, steps_today,
                   scroll_minutes, exercised, lastControl>>
    /\ OnlyTimers

\* a variant of the step milestone that remembers the step count itself
Milestone_Unrounded(steps) == steps

\* Math.floor(steps / 5000) * 5000
Milestone(steps) == (steps \div 5000) * 5000

\* checkHealthTriggers, the health poll's callback, every 2 min
checkHealthTriggers ==
    LET milestone == steps_today > 0 /\ steps_today >= lastStepCount + 5000
        started == (IF milestone THEN { "health_milestone" } ELSE {})
                      \cup (IF exercised THEN { "exercise_detected" } ELSE {})
    IN /\ lastStepCount' = IF milestone THEN Milestone(steps_today) ELSE lastStepCount
       /\ lastStart' = IF started = {} THEN lastStart ELSE RunCycle(started, "health poll")

HealthPoll(t) ==
    /\ t \in timers /\ t.kind = "health"
    /\ checkHealthTriggers
    /\ UNCHANGED <<running, intervalMs, intervalTimer, scrollPollTimer, healthPollTimer,
                   starting, timers, timeouts, timerSeq, steps_today, scroll_minutes,
                   exercised, lastControl>>
    /\ OnlyTimers

\* the signals: steps_today does not decrease within the day; an exercise session
\* counts as new for three minutes
StepCounts == { 3000, 5000, 7000, 10000, 12000 }
Walk(steps) ==
    /\ steps > steps_today
    /\ steps_today' = steps
    /\ UNCHANGED <<running, intervalMs, intervalTimer, scrollPollTimer, healthPollTimer,
                   lastStepCount, starting, timers, timeouts, timerSeq, scroll_minutes,
                   exercised, lastStart, lastControl>>
    /\ OnlyTimers

Signal(minutes, session) ==
    /\ <<minutes, session>> # <<scroll_minutes, exercised>>
    /\ scroll_minutes' = minutes
    /\ exercised' = session
    /\ UNCHANGED <<running, intervalMs, intervalTimer, scrollPollTimer, healthPollTimer,
                   lastStepCount, starting, timers, timeouts, timerSeq, steps_today,
                   lastStart, lastControl>>
    /\ OnlyTimers

\* the loop after construction, with no signal yet
InitLoop ==
    /\ running = FALSE /\ intervalMs = 12
    /\ intervalTimer = 0 /\ scrollPollTimer = 0 /\ healthPollTimer = 0
    /\ lastStepCount = 0 /\ starting = 0
    /\ timers = {} /\ timeouts = 0 /\ timerSeq = 0
    /\ steps_today = 0 /\ scroll_minutes = 0 /\ exercised = FALSE
    /\ lastStart = NoStart /\ lastControl = "none"

----------------------------------------------------------------------------
\* runCycle over the habit objects.  storage.getHabits() returns the cache's map
\* and Object.values its habit objects; recalculateAll assigns to their fields,
\* saveHabit stores the object it is given under its id, the array runCycle gets
\* back holds the same objects, and so does habit_states of the result that
\* appendCycleResult pushes.  No operation followed here replaces a habit object,
\* so an object is named by its habit's id and read through habits.

Runs == 1..MaxInFlight

\* no context: the cycle is not running, the habit was not recomputed
NoContext == Context(FALSE, FALSE, 0, 0, "", 0)

IdleRun == [ pc |-> "idle", trigger |-> "", context |-> NoContext, todo |-> << >>,
             updated |-> << >> ]

OnlyOverlap == UNCHANGED <<platformVars, runtimeVars, modelReady, routerVars, lastRoute,
                           nudgeHistory, lastExec, loopVars, laundryVars,
                           notificationVars, lastRecent, timerVars, parseVars,
                           guardVars>>

OverlapTriggers == { "interval", "prolonged_scrolling" }
\* the snapshot getContextSnapshot() gives a cycle: a weekday morning for the
\* interval's, a weekend evening with the screen on for the scroll poll's
ContextAt(reason) ==
    IF reason = "interval" THEN Context(FALSE, FALSE, 10, 2, "still", 0)
    ELSE Context(FALSE, TRUE, 19, 6, "still", 45)

\* the cycles started so far
Started == Len(audit) + Cardinality({ c \in Runs : run[c].pc \notin { "idle", "persist" } })

\* a timer callback or trigger() calls runCycle: the context is taken and
\* recalculateAll is called, up to its await of storage.getHabits().  Nothing is
\* asked about the cycles already in flight.
RunStarts(c, reason) ==
    /\ run[c].pc = "idle"
    /\ \A d \in Runs : d < c => run[d].pc # "idle"
    /\ Started < MaxRuns
    /\ run' = [run EXCEPT ![c] = [ pc |-> "habits", trigger |-> reason,
                                   context |-> ContextAt(reason), todo |-> << >>,
                                   updated |-> << >> ]]
    /\ UNCHANGED <<audit, lastWrite, habitVars>>
    /\ OnlyOverlap

\* Object.values(habitsMap), in the order the habits were saved
HabitOrder == << "gym", "laundry" >>
ObjectValues(store) == SelectSeq(HabitOrder, LAMBDA id : id \in DOMAIN store)

\* the habits are there: the loop of recalculateAll is entered
ReadHabits(c) ==
    /\ run[c].pc = "habits"
    /\ run' = [run EXCEPT ![c].pc = "loop", ![c].todo = ObjectValues(habits)]
    /\ UNCHANGED <<audit, lastWrite, habitVars>>
    /\ OnlyOverlap

\* a variant of the loop body that leaves a habit another cycle has recomputed
writeHabit_FirstWins(c, id) ==
    IF lastWrite[id] # NoContext THEN habits
    ELSE saveHabit(habits, recalculateOne(habits[id], run[c].context, now))

\* the loop body for one habit: its scores are assigned and it is saved
writeHabit(c, id) == saveHabit(habits, recalculateOne(habits[id], run[c].context, now))

\* one turn of the loop, up to the await of saveHabit; after the last one
\* runCycle goes on to its await of decide()
RecalcHabit(c) ==
    /\ run[c].pc = "loop"
    /\ LET id == Head(run[c].todo) IN
       /\ habits' = writeHabit(c, id)
       /\ lastWrite' = [lastWrite EXCEPT ![id] = run[c].context]
       /\ run' = [run EXCEPT ![c].todo = Tail(run[c].todo),
                             ![c].updated = Append(run[c].updated, id),
                             ![c].pc = IF Len(run[c].todo) = 1 THEN "infer" ELSE "loop"]
    /\ UNCHANGED <<audit, now, lastOp, engineCalls>>
    /\ OnlyOverlap

\* decide() has resolved with no tool call: the result is built from the array
\* recalculateAll returned and appendCycleResult pushes it, up to its await
AppendResult(c) ==
    /\ run[c].pc = "infer"
    /\ audit' = Append(audit, [ trigger |-> run[c].trigger,
                                habit_states |-> run[c].updated ])
    /\ run' = [run EXCEPT ![c].pc = "persist"]
    /\ UNCHANGED <<lastWrite, habitVars>>
    /\ OnlyOverlap

\* the writes have resolved and runCycle returns
RunEnds(c) ==
    /\ run[c].pc = "persist"
    /\ run' = [run EXCEPT ![c] = IdleRun]
    /\ UNCHANGED <<audit, lastWrite, habitVars>>
    /\ OnlyOverlap

\* what a reader of the history finds in an entry's habit_states
HabitStates(entry) == [ i \in DOMAIN entry.habit_states |-> habits[entry.habit_states[i]] ]

InitOverlap ==
    /\ run = [ c \in Runs |-> IdleRun ]
    /\ audit = << >>
    /\ lastWrite = [ id \in { "gym", "laundry" } |-> NoContext ]

----------------------------------------------------------------------------
\* nudge logs, for calls of recordNudgeOutcome on a habit that has a history

RECURSIVE LogsOfLength(_)
LogsOfLength(n) ==
    IF n = 0 THEN { << >> }
    ELSE { Append(log, outcome) : log \in LogsOfLength(n - 1), outcome \in NudgeOutcomes }

\* n records: the first k dismissed and the others completed, or the reverse
Run(n, k, first, then) == [ i \in 1..n |-> IF i <= k THEN first ELSE then ]

SampleLogs ==
    UNION { LogsOfLength(n) : n \in 0..MaxLog }
      \cup { Run(n, k, "dismissed", "completed") : n \in { 10, 11, 19, 20 }, k \in { 1, 5 } }
      \cup { Run(n, k, "completed", "dismissed") : n \in { 10, 11, 19, 20 }, k \in { 1, 5 } }

\* the habit map in which gym has the log, and the resistance the engine gave it
\* when the last record was appended
StoreWithLog(log) ==
    [DefaultHabits EXCEPT
        !["gym"] = IF log = << >> THEN @
                   ELSE LET logged == [@ EXCEPT !.recent_nudge_outcomes = log]
                        IN [logged EXCEPT !.resistance_score = calculateResistance(logged)]]

RecordOutcomes == { "completed", "dismissed", "ignored", "snoozed", "null" }

----------------------------------------------------------------------------
\* The audit history, written and read directly.  A result is known by its serial
\* number: the first appended is 1.

\* history.slice(-count): -0 is 0, so a count of 0 takes the slice from the start
getRecentCycles(history, count) ==
    IF count = 0 THEN history ELSE LastN(history, count)

NoRecent == [ called |-> FALSE, count |-> 0, history |-> << >>, returned |-> << >> ]

Appended(history) == IF history = << >> THEN 0 ELSE history[Len(history)]

OnlyHistory == UNCHANGED <<platformVars, runtimeVars, modelReady, routerVars, lastRoute,
                           nudgeHistory, lastExec, listeners, cy, turn, habitVars,
                           laundryVars, notificationVars, restVars>>

AppendCycleResultCall ==
    /\ turn = 0
    /\ Appended(agent_history) < MAX_HISTORY_ENTRIES + MaxTrimmed
    /\ agent_history' = appendCycleResult(agent_history, Appended(agent_history) + 1)
    /\ UNCHANGED lastRecent
    /\ OnlyHistory

RecentCounts == { 0, 1, 50, MAX_HISTORY_ENTRIES, MAX_HISTORY_ENTRIES + 50 }

GetRecentCyclesCall(count) ==
    /\ turn = 0
    /\ lastRecent' = [ called |-> TRUE, count |-> count, history |-> agent_history,
                       returned |-> getRecentCycles(agent_history, count) ]
    /\ UNCHANGED agent_history
    /\ OnlyHistory

----------------------------------------------------------------------------
\* NotificationDispatcher.handleNotificationAction and the counters it feeds

OnlyNotifications == UNCHANGED <<platformVars, runtimeVars, modelReady, routerVars, lastRoute,
                                 nudgeHistory, lastExec, loopVars, habitVars, laundryVars,
                                 lastRecent, restVars>>

NotificationActions == { "completed", "dismissed", "snoozed" }

\* handleNotificationAction(action) is recordNudgeInteraction(action)
handleNotificationAction(action) ==
    /\ turn = 0
    /\ recentNotificationCount < MaxInteractions
    /\ lastNudgeResponse' = action
    /\ recentNotificationCount' = recentNotificationCount + 1
    /\ OnlyNotifications

resetNotificationCounters ==
    /\ turn = 0
    /\ recentNotificationCount' = 0
    /\ lastNudgeResponse' = "null"
    /\ OnlyNotifications

----------------------------------------------------------------------------
\* LaundryPredictor, applied to an inventory on its own

Schedules == { {}, { 1, 3, 5 }, { 0, 6 }, { 2 } }

Inventory(clean, dirty, rate, gymDays) ==
    [ has_total_gym_clothes |-> TRUE, clean_count |-> clean, dirty_count |-> dirty,
      avg_clothes_per_session |-> rate, gym_days |-> gymDays,
      predicted_depletion_date |-> Null ]

SampleInventories ==
    { Inventory(c, 0, r, g) : c \in 0..MaxStock, r \in 1..MaxRate, g \in Schedules }

DefaultInventory == Inventory(7, 0, 1, { 1, 3, 5 })

NoForecast ==
    [ called |-> FALSE, meta |-> DefaultInventory, currentDay |-> 0,
      days_until_depletion |-> 0, urgency |-> "none" ]

OnlyLaundry == UNCHANGED <<platformVars, runtimeVars, modelReady, routerVars, lastRoute,
                           nudgeHistory, lastExec, loopVars, habitVars, notificationVars,
                           lastRecent, restVars>>

\* predictDepletion(state, now), now falling on the weekday currentDay
PredictDepletionCall(currentDay) ==
    /\ lastForecast' =
          LET f == predictDepletion(laundry, currentDay)
          IN [ called |-> TRUE, meta |-> laundry, currentDay |-> currentDay,
               days_until_depletion |-> f.days_until_depletion, urgency |-> f.urgency ]
    /\ UNCHANGED laundry
    /\ OnlyLaundry

ConsumeGymClothesCall ==
    /\ laundry' = consumeGymClothes(laundry)
    /\ UNCHANGED lastForecast
    /\ OnlyLaundry

WashClothesCall ==
    /\ laundry' = washClothes(laundry)
    /\ UNCHANGED lastForecast
    /\ OnlyLaundry

----------------------------------------------------------------------------
\* Specifications

\* all but the habit map and the router's statistics
InitClient ==
    /\ nativeAvailable \in BOOLEAN
    /\ cactusTokenSet \in BOOLEAN
    /\ isLoaded = FALSE /\ isNative = FALSE /\ nativeReady = FALSE /\ lm = FALSE
    /\ hybridAvailable = FALSE /\ geminiApiKey = FALSE /\ isDownloading = FALSE
    /\ modelReady = FALSE
    /\ lastRoute = [ ctx |-> [ is_connected |-> TRUE, battery_level |-> 80,
                               prompt_complexity |-> 20 ],
                     decision |-> "none", seq |-> 0 ]
    /\ nudgeHistory = 0
    /\ lastExec = NoExec
    /\ agent_history = <<>>
    /\ listeners = {}
    /\ cy = [ c \in Cycles |-> IdleCycle ]
    /\ turn = 0
    /\ now = RECENCY_HALF_LIFE_HOURS * 60
    /\ lastOp = NoOp
    /\ engineCalls = 0
    /\ lastForecast = NoForecast
    /\ lastNudgeResponse = "null"
    /\ recentNotificationCount = 0
    /\ lastRecent = NoRecent

\* all but the habit map
InitAgent ==
    /\ InitClient
    /\ recentLocalLatencies = <<>> /\ recentCloudLatencies = <<>>
    /\ localFailures = 0 /\ cloudFailures = 0

\* the parts applied on their own are at rest
InitRest == InitLoop /\ InitOverlap /\ InitNormalised /\ InitGuarded /\ build = "paths"
InitParts == laundry = DefaultInventory /\ InitRest

\* nothing is stored before onboarding
Init == InitAgent /\ InitParts /\ habits = << >>

\* the agent: client lifecycle, subscriptions and cycles
\* runCycle has resolved or rejected: its locals are gone, and its record serves
\* the next call
Finish(c) ==
    /\ turn = c
    /\ cy[c].pc \in { "done", "rejected" }
    /\ cy' = [cy EXCEPT ![c] = IdleCycle]
    /\ agent_history' = SelectSeq(agent_history, LAMBDA r : r # c)
    /\ turn' = 0
    /\ UNCHANGED <<platformVars, partVars, habitVars, runtimeVars, modelReady, routerVars, lastRoute,
                   nudgeHistory, lastExec, listeners>>

Next ==
    \/ initialize
    \/ unload
    \/ shutdown
    \/ setGeminiApiKey
    \/ \E l \in Listeners : subscribe(l)
    \/ \E l \in Listeners : unsubscribe(l)
    \/ \E c \in Cycles, t \in AgentTriggers : StartCycle(c, t)
    \/ \E c \in Cycles : Recalculate(c)
    \/ \E c \in Cycles : Route(c)
    \/ \E c \in Cycles : Decide(c)
    \/ \E c \in Cycles : Path1(c)
    \/ \E c \in Cycles : RestDone(c)
    \/ \E c \in Cycles : Path2(c)
    \/ \E c \in Cycles : HybridDone(c)
    \/ \E c \in Cycles : HybridStopped(c)
    \/ \E c \in Cycles : Path3(c)
    \/ \E c \in Cycles : LoadDone(c)
    \/ \E c \in Cycles : Local(c)
    \/ \E c \in Cycles : LocalDone(c)
    \/ \E c \in Cycles : LocalStopped(c)
    \/ \E c \in Cycles : Fallback(c)
    \/ \E c \in Cycles : Validate(c)
    \/ \E c \in Cycles : ExecuteStep(c)
    \/ \E c \in Cycles : AppendStep(c)
    \/ \E c \in Cycles : AppendDone(c)
    \/ \E c \in Cycles : Notify(c)
    \/ \E c \in Cycles : Finish(c)

Spec == Init /\ [][Next]_vars

\* the router, driven by its callers
NextRouter ==
    \/ \E path \in { "local", "cloud" }, ms \in LatencySamples : recordLatency(path, ms)
    \/ \E path \in { "local", "cloud" } : recordFailure(path)
    \/ \E path \in { "local", "cloud" } : recordSuccess(path)
    \/ \E ctx \in RoutingContexts : RouteDecisionCall(ctx)

\* the platform plays no part in routing
InitRouter == Init /\ ~nativeAvailable /\ ~cactusTokenSet

SpecRouter == InitRouter /\ [][NextRouter]_vars

\* the executor, called directly
NextExecutor == \E call \in DirectCalls : ExecuteCall(call)

SpecExecutor == InitRouter /\ [][NextExecutor]_vars

\* the habit store: onboarding, the clock, the engine and the habit tools
NextHabits ==
    \/ createDefaultHabits
    \/ \E k \in 1..MaxPeriods : Advance(k)
    \/ \E context \in ScoringContexts : RecalculateAllCall(context)
    \/ \E habitId \in HabitIds : RecordCompletionCall(habitId)
    \/ \E habitId \in HabitIds, outcome \in NudgeOutcomes :
          RecordNudgeOutcomeCall(habitId, outcome)
    \/ \E habitId \in HabitIds, minutes \in CooldownMinutes :
          SetCooldownCall(habitId, minutes)
    \/ \E call \in HabitCalls : ExecuteHabitCall(call)

SpecHabits == InitRouter /\ [][NextHabits]_vars

\* the scoring engine, applied to stored habits with valid fields
NextScoring ==
    \/ \E k \in 1..MaxPeriods : Advance(k)
    \/ \E context \in AllContexts : RecalculateAllCall(context)

InitScoring ==
    InitAgent /\ InitParts /\ ~nativeAvailable /\ ~cactusTokenSet /\ habits \in SampleStores

SpecScoring == InitScoring /\ [][NextScoring]_vars

\* the router's statistics, after earlier calls have filled the windows
MidContext == [ is_connected |-> TRUE, battery_level |-> 80, prompt_complexity |-> 55 ]

NextStatistics ==
    \/ \E path \in { "local", "cloud" }, ms \in LatencySamples : recordLatency(path, ms)
    \/ \E path \in { "local", "cloud" } : recordFailure(path)
    \/ \E path \in { "local", "cloud" } : recordSuccess(path)
    \/ RouteDecisionCall(MidContext)

InitStatistics ==
    /\ InitClient /\ InitParts /\ ~nativeAvailable /\ ~cactusTokenSet /\ habits = << >>
    /\ recentLocalLatencies \in EarlierWindows /\ recentCloudLatencies \in EarlierWindows
    /\ localFailures = 0 /\ cloudFailures = 0

SpecStatistics == InitStatistics /\ [][NextStatistics]_vars

\* the audit history
NextHistory ==
    \/ AppendCycleResultCall
    \/ \E count \in RecentCounts : GetRecentCyclesCall(count)

SpecHistory == InitRouter /\ [][NextHistory]_vars

\* nudges sent by the send_nudge tool and the user's responses to them; the event
\* loop runs every handler that is due
NextInteraction ==
    \/ \E habitId \in { "gym", "laundry" } : ExecuteHabitCall(Nudge(habitId))
    \/ \E action \in NotificationActions : handleNotificationAction(action)
    \/ resetNotificationCounters
    \/ \E context \in ScoringContexts : RecalculateAllCall(context)

InitInteraction ==
    /\ InitAgent /\ InitParts /\ ~nativeAvailable /\ ~cactusTokenSet
    /\ habits = DefaultHabits

\* the platform delivers every tap on a notification to handleNotificationAction
\* and the screens that reset the counters run their reset: neither handler is
\* left waiting forever
SpecInteraction ==
    /\ InitInteraction /\ [][NextInteraction]_vars
    /\ WF_vars(\E action \in NotificationActions : handleNotificationAction(action))
    /\ WF_vars(resetNotificationCounters)

\* increase_cooldown, handed to the executor with arguments of every kind
CooldownCalls ==
    { Cooldown("gym", "30"), Cooldown("gym", "120"), Cooldown("gym", "500"),
      Cooldown("laundry", "7"), Cooldown("ghost", "30"),
      Cooldown("gym", "0"), Cooldown("gym", "-5"), Cooldown("gym", "soon"),
      Cooldown("gym", ""), Cooldown("", "30"),
      Call("increase_cooldown", { <<"minutes", "30">> }),
      Call("increase_cooldown", { <<"habit_id", "gym">> }) }

NextCooldown ==
    \/ \E call \in CooldownCalls : ExecuteHabitCall(call)
    \/ \E k \in 1..MaxPeriods : Advance(k)

InitCooldown ==
    /\ InitAgent /\ InitParts /\ ~nativeAvailable /\ ~cactusTokenSet
    /\ habits = DefaultHabits

SpecCooldown == InitCooldown /\ [][NextCooldown]_vars

\* the agent loop's timers and the signals its polls read
NextTimers ==
    \/ start
    \/ StartResumes
    \/ stop
    \/ \E ms \in IntervalChoices : setIntervalMs(ms)
    \/ \E reason \in ExternalTriggers : trigger(reason)
    \/ \E t \in timers : IntervalTick(t)
    \/ TimeoutFires
    \/ \E t \in timers : ScrollPoll(t)
    \/ \E t \in timers : HealthPoll(t)
    \/ \E steps \in StepCounts : Walk(steps)
    \/ \E minutes \in { 0, 20 }, session \in BOOLEAN : Signal(minutes, session)

SpecTimers == InitRouter /\ [][NextTimers]_vars

\* cycles over the stored habits, started with nothing to keep them apart, and
\* the engine called from the screens
NextOverlap ==
    \/ \E c \in Runs, reason \in OverlapTriggers : RunStarts(c, reason)
    \/ \E c \in Runs : ReadHabits(c)
    \/ \E c \in Runs : RecalcHabit(c)
    \/ \E c \in Runs : AppendResult(c)
    \/ \E c \in Runs : RunEnds(c)
    \/ RecordCompletionCall("gym")
    \/ SetCooldownCall("laundry", 60)

InitStored ==
    /\ InitAgent /\ InitParts /\ ~nativeAvailable /\ ~cactusTokenSet
    /\ habits = DefaultHabits

SpecOverlap == InitStored /\ [][NextOverlap]_vars

\* the flag-guarded runtime, called by its client
NextGuarded ==
    \/ initializeGuarded
    \/ setCactusToken
    \/ unloadGuarded
    \/ \E r \in Requests : complete(r)
    \/ \E r \in Requests : NativeResolves(r)
    \/ \E r \in Requests : NativeRejects(r)
    \/ \E r \in Requests : NativeTimesOut(r)
    \/ \E r \in Requests : StopSettles(r)
    \/ \E r \in Requests : Taken(r)

InitBuilds ==
    /\ InitAgent /\ habits = << >>
    /\ laundry = DefaultInventory /\ InitLoop /\ InitOverlap /\ InitNormalised
    /\ InitGuarded /\ build \in Builds
    /\ build # "paths" => ~cactusTokenSet

InitFlagBuilds == InitBuilds /\ build # "paths"

SpecGuarded == InitFlagBuilds /\ [][NextGuarded]_vars

\* a client built with any of the three runtimes
NextNative ==
    \/ build = "paths" /\ Next
    \/ build # "paths" /\ NextGuarded

SpecNative == InitBuilds /\ [][NextNative]_vars

\* backend results being normalised, one backend at a time
NextParse ==
    \/ \E data \in GeminiData : NormaliseGemini(data)
    \/ \E result \in CactusResults, src \in { "hybrid", "local" } :
          NormaliseCactus(result, src)

InitParse == Init /\ ~nativeAvailable /\ ~cactusTokenSet

SpecParse == InitParse /\ [][NextParse]_vars

\* friction: update_habit_state writes it, recalculateAll recomputes it
FrictionWrites ==
    { Update(habitId, "friction_score", value) :
        habitId \in { "gym", "laundry" }, value \in { "0", "1", "7" } }

NextFriction ==
    \/ \E call \in FrictionWrites : ExecuteHabitCall(call)
    \/ \E context \in ScoringContexts : RecalculateAllCall(context)

\* after onboarding, with few or all of the gym clothes clean
InitFriction ==
    /\ InitAgent /\ InitParts /\ ~nativeAvailable /\ ~cactusTokenSet
    /\ \E clean \in { 1, 7 } :
          habits = [DefaultHabits EXCEPT !["laundry"].metadata.clean_count = clean]

SpecFriction == InitFriction /\ [][NextFriction]_vars

\* the nudge log of one habit and its resistance
NextResistance ==
    \/ \E outcome \in RecordOutcomes : RecordNudgeOutcomeCall("gym", outcome)
    \/ RecalculateAllCall(Context(FALSE, FALSE, 10, 2, "still", 0))

InitResistance ==
    /\ InitAgent /\ InitParts /\ ~nativeAvailable /\ ~cactusTokenSet
    /\ \E log \in SampleLogs : habits = StoreWithLog(log)

SpecResistance == InitResistance /\ [][NextResistance]_vars

\* the depletion forecaster, applied to sample inventories
NextLaundry ==
    \/ \E currentDay \in 0..6 : PredictDepletionCall(currentDay)
    \/ ConsumeGymClothesCall
    \/ WashClothesCall

InitLaundry ==
    /\ InitAgent /\ ~nativeAvailable /\ ~cactusTokenSet /\ habits = << >>
    /\ laundry \in SampleInventories
    /\ InitRest

SpecLaundry == InitLaundry /\ [][NextLaundry]_vars

----------------------------------------------------------------------------
\* Properties

\* C1: complete(), called on an initialized runtime, returns normally when every
\* eligible backend attempt has failed or none was eligible: a response with
\* success = true, exactly one function call, named delay_nudge and carrying a
\* non-empty reason, and confidence 0.1 (10 here), which is below the confidence
\* of every response a real backend produced.
C1_FallbackResponse ==
    \A c \in Cycles :
        /\ (cy[c].inference = "threw" => cy[c].attempts = <<>> /\ ~isLoaded)
        /\ cy[c].pc = "validate" =>
             /\ cy[c].inference = "returned"
             /\ (\A i \in DOMAIN cy[c].attempts : cy[c].attempts[i][2] # "ok") =>
                  /\ cy[c].response.success
                  /\ Len(cy[c].response.function_calls) = 1
                  /\ cy[c].response.function_calls[1].name = "delay_nudge"
                  /\ cy[c].response.function_calls[1].hasArgs
                  /\ Truthy(cy[c].response.function_calls[1].arguments, "reason")
                  /\ cy[c].response.confidence = 10
             /\ (\E i \in DOMAIN cy[c].attempts : cy[c].attempts[i][2] = "ok") =>
                  cy[c].response.confidence > 10

\* complete() has returned after an attempt that failed and none that succeeded
C1_Witness ==
    \E c \in Cycles :
        /\ cy[c].pc = "validate"
        /\ cy[c].attempts # <<>>
        /\ \A i \in DOMAIN cy[c].attempts : cy[c].attempts[i][2] = "failed"
        /\ cy[c].response.confidence = 10

\* C2: every started runCycle completes and emits: whether decide returns a tool
\* call, none, or throws, the cycle has appended exactly one AgentCycleResult to
\* the audit log and notified the subscribers when it ends; when decide threw, the
\* raw_response is an 'ERROR: ...' string and tool_call and tool_result are null.
C2_CycleCompletesAndEmits ==
    \A c \in Cycles :
        cy[c].pc \in { "done", "rejected" } =>
            /\ cy[c].pc = "done"
            /\ cy[c].steps[Len(cy[c].steps)] = "notify"
            /\ Cardinality({ i \in DOMAIN agent_history : agent_history[i] = c }) = 1
            /\ cy[c].decideThrew =>
                 /\ cy[c].raw_response \in
                       { "ERROR: Error: FunctionGemma not initialized.",
                         "ERROR: Error: Model not loaded. Call initialize() first.",
                         "ERROR: TypeError: Cannot use 'in' operator" }
                 /\ cy[c].tool_call = NullCall
                 /\ cy[c].tool_result = NullResult

\* C3: decide() never propagates an exception to the orchestrator, in any client
\* state (before initialize(), after shutdown(), runtime loaded or not) and
\* whatever the backends do.
C3_DecideNeverThrows == \A c \in Cycles : ~cy[c].decideThrew

\* C4: execute(call) with a name that has no registered handler returns a result
\* with success = false whose error lists every registered tool name, and no
\* handler is invoked.
C4_UnknownToolFails ==
    (lastExec # NoExec /\ lastExec.call.name \notin Range(TOOL_HANDLERS)) =>
        /\ lastExec.result.shape = "ToolResult"
        /\ ~lastExec.result.success
        /\ lastExec.result.error.available = TOOL_HANDLERS
        /\ lastExec.ran = ""
        /\ lastExec.thrown = ""

\* C5: execute never lets an exception escape: when the function it dispatched to
\* threw (or its promise rejected), execute resolves to a result with
\* success = false, the call's tool name and an error message derived from the
\* thrown error.
C5_HandlerErrorCaught ==
    /\ lastExec.escaped = ""
    /\ lastExec.thrown # "" =>
         /\ lastExec.result.shape = "ToolResult"
         /\ ~lastExec.result.success
         /\ lastExec.result.tool_name = lastExec.call.name
         /\ lastExec.result.error.kind = "Execution error"
         /\ lastExec.result.error.detail = lastExec.thrown

\* a registered handler threw
C5_Witness ==
    /\ lastExec.thrown # ""
    /\ lastExec.ran \in Range(TOOL_HANDLERS)
    /\ lastExec.result.tool_name = lastExec.ran

\* C6: execute(call) for a registered tool whose call omits a parameter the tool's
\* schema requires returns a failure without invoking the tool's handler (the
\* handler's call count stays zero).
C6_MissingParamNotDispatched ==
    ( /\ lastExec.call.name \in Range(TOOL_HANDLERS)
      /\ lastExec.call.hasArgs
      /\ \E param \in TOOL_DEFINITIONS[lastExec.call.name] :
             ~Has(lastExec.call.arguments, param) ) =>
        /\ ~lastExec.result.success
        /\ lastExec.runs = 0

\* C7: in one cycle at most one tool handler is invoked, at most once: of the
\* function calls of the response only the first is considered, it is executed
\* only if it names a defined tool and supplies all of that tool's required
\* parameters, and otherwise no handler runs and tool_call and tool_result are
\* null.
C7_AtMostOneHandler ==
    \A c \in Cycles :
        /\ Len(cy[c].handlerRuns) <= 1
        /\ cy[c].handlerRuns # <<>> =>
             /\ cy[c].tool_call # NullCall
             /\ cy[c].handlerRuns = << cy[c].tool_call.name >>
        /\ cy[c].tool_call = NullCall =>
             cy[c].handlerRuns = <<>> /\ cy[c].tool_result = NullResult
        /\ cy[c].tool_call # NullCall =>
             /\ cy[c].tool_call.name \in DOMAIN TOOL_DEFINITIONS
             /\ \A param \in TOOL_DEFINITIONS[cy[c].tool_call.name] :
                    Has(cy[c].tool_call.arguments, param)
             /\ cy[c].pc = "execute" =>
                  /\ cy[c].response.function_calls # <<>>
                  /\ cy[c].tool_call = cy[c].response.function_calls[1]

\* the response carried two calls and the first was taken
C7_Witness ==
    \E c \in Cycles :
        /\ cy[c].pc = "execute"
        /\ Len(cy[c].response.function_calls) = 2
        /\ cy[c].tool_call = cy[c].response.function_calls[1]

\* C8: routeDecision returns 'local' whenever is_connected is false, whatever the
\* battery level, the prompt complexity, the latency windows and the failure
\* counters.
C8_OfflineRoutesLocal ==
    (lastRoute.decision # "none" /\ ~lastRoute.ctx.is_connected) =>
        lastRoute.decision = "local"

\* an offline call with a full battery, a complex prompt, recorded failures and samples
C8_Witness ==
    /\ lastRoute.decision = "local"
    /\ ~lastRoute.ctx.is_connected
    /\ lastRoute.ctx.battery_level >= 15
    /\ lastRoute.ctx.prompt_complexity > 70
    /\ localFailures > 0
    /\ recentCloudLatencies # <<>>

C10_StepsInOrder ==
    \A c \in Cycles :
        LET steps == cy[c].steps
            before(step) ==
                CASE step = "collect"   -> { }
                  [] step = "recompute" -> { "collect" }
                  [] step = "route"     -> { "recompute" }
                  [] step = "infer"     -> { "route" }
                  [] step = "validate"  -> { "infer" }
                  [] step = "execute"   -> { "validate" }
                  [] step = "append"    -> { "infer", "validate", "execute" }
                  [] step = "notify"    -> { "append" }
        IN /\ \A i \in DOMAIN steps :
                IF i = 1 THEN steps[i] = "collect" ELSE steps[i - 1] \in before(steps[i])
           /\ cy[c].handlerRuns # <<>> =>
                /\ steps # <<>>
                /\ steps[Len(steps)] \in { "execute", "append", "notify" }
                /\ cy[c].inference # "running"
           /\ (steps # <<>> /\ steps[Len(steps)] = "notify") =>
                /\ c \in Range(agent_history)
                /\ cy[c].pc = "done"

\* a cycle that went through all eight steps
C10_Witness ==
    \E c \in Cycles :
        cy[c].steps = << "collect", "recompute", "route", "infer", "validate",
                         "execute", "append", "notify" >>

\* C11: if the durable write of a cycle result fails, the cycle is not aborted:
\* the result is still emitted to every subscriber and runCycle resolves with it.
\* So no cycle that has appended its result ends rejected.
C11_WriteFailureNotFatal ==
    \A c \in Cycles :
        (cy[c].steps # <<>> /\ cy[c].steps[Len(cy[c].steps)] = "append") =>
            cy[c].pc \in { "append_wait", "notify" }

\* C12: within one complete() call the backends are attempted in the order Gemini
\* REST (only online, with a key), Cactus hybrid (only online, hybrid enabled,
\* model loaded), local (the model lazily loaded only when offline), fallback; a
\* later backend is attempted only after the earlier attempts have failed, none
\* after one has succeeded, and offline neither REST nor hybrid is attempted.
C12_BackendOrder ==
    \A c \in Cycles :
        LET attempts == cy[c].attempts
            order(backend) == CASE backend = "rest" -> 1
                                [] backend = "hybrid" -> 2
                                [] backend = "local" -> 3
            underway == CASE cy[c].pc = "rest_wait" -> 1
                         [] cy[c].pc = "hybrid_wait" -> 2
                         [] cy[c].pc \in { "load_wait", "local_wait" } -> 3
                         [] cy[c].pc \in { "fallback" } -> 4
                         [] OTHER -> 0
        IN /\ \A i, j \in DOMAIN attempts :
                i < j => /\ order(attempts[i][1]) < order(attempts[j][1])
                         /\ attempts[i][2] = "failed"
           /\ underway > 0 =>
                \A i \in DOMAIN attempts :
                    order(attempts[i][1]) < underway /\ attempts[i][2] = "failed"
           /\ \A i \in DOMAIN attempts :
                /\ attempts[i][1] = "rest" => cy[c].isOnline /\ geminiApiKey
                /\ attempts[i][1] = "hybrid" => cy[c].isOnline /\ hybridAvailable
           /\ cy[c].pc = "rest_wait" => cy[c].isOnline /\ geminiApiKey
           /\ cy[c].pc = "hybrid_wait" => cy[c].isOnline /\ hybridAvailable
           /\ cy[c].pc = "load_wait" => ~cy[c].isOnline

\* all three backends were attempted in one call, the first two failing
C12_Witness ==
    \E c \in Cycles :
        /\ Len(cy[c].attempts) = 3
        /\ cy[c].attempts[1] = << "rest", "failed" >>
        /\ cy[c].attempts[2] = << "hybrid", "failed" >>
        /\ cy[c].attempts[3][1] = "local"

\* C13: the routing_decision of a cycle is the path the inference client executed:
\* when the router chose 'local' no remote backend (REST, hybrid) is attempted
\* first, and when it chose 'cloud' the first attempt is a remote backend.
C13_RouteIsPathExecuted ==
    \A c \in Cycles :
        LET first == IF cy[c].attempts # <<>> THEN cy[c].attempts[1][1]
                     ELSE CASE cy[c].pc = "rest_wait" -> "rest"
                            [] cy[c].pc = "hybrid_wait" -> "hybrid"
                            [] cy[c].pc = "local_wait" -> "local"
                            [] OTHER -> "none"
        IN /\ (cy[c].route = "local" /\ first # "none") => first = "local"
           /\ (cy[c].route = "cloud" /\ first # "none") => first \in { "rest", "hybrid" }

\* C14: no nudge is issued for a habit while its cooldown is active: a send_nudge
\* executed for a stored habit with cooldown_until > now dispatches no
\* notification.  (Since the last executed call only the clock has moved, so a
\* cooldown that is active now was active when the call ran.)
C14_NoNudgeDuringCooldown ==
    ( /\ lastExec.call.name = "send_nudge"
      /\ Has(lastExec.call.arguments, "habit_id")
      /\ ~Missing(habits, Arg(lastExec.call.arguments, "habit_id"))
      /\ isCoolingDown(habits[Arg(lastExec.call.arguments, "habit_id")], now) )
        => ~lastExec.nudged

\* C15: while a habit's cooldown is active, a further setCooldown or
\* increase_cooldown does not move cooldown_until to an earlier instant.
C15_CooldownNotShortened ==
    [][ ( \/ (lastOp' # lastOp /\ lastOp'.name = "setCooldown")
          \/ (lastExec' # lastExec /\ lastExec'.call.name = "increase_cooldown") )
          => \A id \in DOMAIN habits :
                isCoolingDown(habits[id], now)
                    => habits'[id].cooldown_until >= habits[id].cooldown_until ]_vars

\* C16: the scoring engine is the only writer of the three scores: a tool handler
\* that is executed, other than through the engine's recordNudgeOutcome (which
\* send_nudge calls), leaves friction_score, resistance_score and momentum_score
\* of every stored habit as they were.
C16_OnlyEngineWritesScores ==
    [][ (lastExec' # lastExec /\ lastExec'.ran # "send_nudge")
          => \A id \in DOMAIN habits :
                /\ habits'[id].friction_score = habits[id].friction_score
                /\ habits'[id].resistance_score = habits[id].resistance_score
                /\ habits'[id].momentum_score = habits[id].momentum_score ]_vars

InUnit(f) == Leq(Zero, f) /\ Leq(f, One)

\* C17: for stored habits with streak_count >= 0 and completion_rate_7d in
\* [0, 1], whatever their nudge history and the context, recalculateAll leaves
\* friction_score in [0, 1] (the depletion boost included), resistance_score
\* in [0, 1] and momentum_score a whole number in 0..100.
C17_ScoresInRange ==
    lastOp.name = "recalculateAll" =>
        \A id \in DOMAIN habits :
            /\ InUnit(habits[id].friction_score)
            /\ InUnit(habits[id].resistance_score)
            /\ habits[id].momentum_score \in 0..100

\* the cap on friction acted: laundry's base friction 0.85 and boost 0.3 gave 1,
\* while gym, inside its window, has 0.6; gym's momentum is positive
C17_Witness ==
    /\ lastOp.name = "recalculateAll"
    /\ habits["laundry"].friction_score = One
    /\ habits["gym"].friction_score = <<3, 5>>
    /\ habits["gym"].momentum_score > 0
    /\ habits["laundry"].momentum_score = 0

\* C18: in every reachable state every stored habit has streak_count a
\* non-negative whole number, completion_rate_7d, resistance_score and
\* friction_score in [0, 1] and momentum_score in [0, 100].
C18_DataModelRanges ==
    \A id \in DOMAIN habits :
        /\ habits[id].streak_count >= 0
        /\ InUnit(habits[id].completion_rate_7d)
        /\ InUnit(habits[id].resistance_score)
        /\ InUnit(habits[id].friction_score)
        /\ habits[id].momentum_score \in 0..100

\* C19: recordCompletion on a stored habit adds 1 to the streak when a previous
\* completion exists and lies at most 36 hours back, and sets it to 1 otherwise;
\* last_completion_timestamp becomes now, completion_rate_7d becomes
\* min(1, 0.85 rate + 0.15), momentum is recomputed from the new fields; hence
\* the streak is at least 1 afterwards.
C19_RecordCompletion ==
    [][ (lastOp' # lastOp /\ lastOp'.name = "recordCompletion"
            /\ lastOp'.habitId \in DOMAIN habits)
          => LET before == habits[lastOp'.habitId]
                 after  == habits'[lastOp'.habitId]
                 rate   == before.completion_rate_7d
                 recent == /\ before.last_completion_timestamp # Null
                           /\ now - before.last_completion_timestamp
                                <= RECENCY_HALF_LIFE_HOURS * 60
             IN /\ recent => after.streak_count = before.streak_count + 1
                /\ ~recent => after.streak_count = 1
                /\ after.last_completion_timestamp = now
                /\ after.completion_rate_7d =
                      MinF(One, Norm(<<85 * rate[1] + 15 * rate[2], 100 * rate[2]>>))
                /\ after.momentum_score = calculateMomentum(after, now)
                /\ after.streak_count >= 1 ]_vars

\* C20: recordCompletion, recordNudgeOutcome and setCooldown called with an id
\* that is not stored do not throw, save nothing and leave the habit map as it
\* was, and recordCompletion returns null.
C20_MissingHabitNoOp ==
    [][ (lastOp' # lastOp
            /\ lastOp'.name \in { "recordCompletion", "recordNudgeOutcome", "setCooldown" }
            /\ lastOp'.habitId \notin DOMAIN habits)
          => /\ lastOp'.threw = ""
             /\ ~lastOp'.wrote
             /\ habits' = habits
             /\ lastOp'.name = "recordCompletion" => lastOp'.returned = "null" ]_vars


\* the first of the 14 days ahead that is a scheduled-use day on which the stock,
\* reduced by the rate on every scheduled-use day up to and including it, is used
\* up; 14 when there is none
FirstEmptyDay(meta, currentDay) ==
    LET scheduled(d) == ((currentDay + d) % 7) \in meta.gym_days
        left(d) == meta.clean_count
                     - meta.avg_clothes_per_session
                         * Cardinality({ e \in 1..d : scheduled(e) })
        empty == { d \in 1..14 : scheduled(d) /\ left(d) <= 0 }
    IN IF empty = {} THEN 14 ELSE CHOOSE d \in empty : \A e \in empty : d <= e

\* C21: predictDepletion returns as days_until_depletion the first day offset in
\* 1..14 that is a scheduled-use day at which the stock, reduced by the rate on
\* every scheduled-use day so far, is at most 0, and 14 when there is no such day
\* (an empty schedule and a stock of 0 included).
C21_DepletionDay ==
    lastForecast.called
        => lastForecast.days_until_depletion
             = FirstEmptyDay(lastForecast.meta, lastForecast.currentDay)


\* C22: the urgency of a forecast is critical for days_until_depletion <= 0, high
\* for <= 1, medium for <= 3, low for <= 5 and none otherwise; a stock of 3 used 1
\* at a time on Mondays, Wednesdays and Fridays, forecast on a Sunday, gives
\* days_until_depletion = 5 and urgency low.
C22_Urgency ==
    lastForecast.called
        => /\ LET d == lastForecast.days_until_depletion
              IN /\ (d <= 0) => lastForecast.urgency = "critical"
                 /\ (d = 1) => lastForecast.urgency = "high"
                 /\ (d \in 2..3) => lastForecast.urgency = "medium"
                 /\ (d \in 4..5) => lastForecast.urgency = "low"
                 /\ (d > 5) => lastForecast.urgency = "none"
           /\ ( /\ lastForecast.meta.clean_count = 3
                /\ lastForecast.meta.avg_clothes_per_session = 1
                /\ lastForecast.meta.gym_days = { 1, 3, 5 }
                /\ lastForecast.currentDay = 0 )
                 => /\ lastForecast.days_until_depletion = 5
                    /\ lastForecast.urgency = "low"

\* the example's forecast has been made
C22_Witness ==
    /\ lastForecast.called
    /\ lastForecast.meta.clean_count = 3
    /\ lastForecast.meta.avg_clothes_per_session = 1
    /\ lastForecast.meta.gym_days = { 1, 3, 5 }
    /\ lastForecast.currentDay = 0
    /\ lastForecast.urgency = "low"


\* the positions of the negative outcomes of a log, the oldest record at 1
NegativeAt(log) == { i \in 1..Len(log) : log[i] \in { "dismissed", "ignored" } }

SumOf(positions) == SumSeq([ i \in 1..10 |-> IF i \in positions THEN i ELSE 0 ])

\* the same outcomes, each as many times
SameOutcomes(a, b) ==
    /\ Len(a) = Len(b)
    /\ \A outcome \in RecordOutcomes :
          Cardinality({ i \in 1..Len(a) : a[i] = outcome })
            = Cardinality({ i \in 1..Len(b) : b[i] = outcome })

Kth(positions, j) ==
    CHOOSE i \in positions : Cardinality({ k \in positions : k < i }) = j - 1

\* as many negative outcomes, each at least as recent and one more recent
LaterNegatives(a, b) ==
    /\ Cardinality(NegativeAt(a)) = Cardinality(NegativeAt(b))
    /\ NegativeAt(a) # NegativeAt(b)
    /\ \A j \in 1..Cardinality(NegativeAt(a)) :
          Kth(NegativeAt(a), j) >= Kth(NegativeAt(b), j)

Less(f, g) == Leq(f, g) /\ f # g

ResistanceOf(log) == calculateResistance([ recent_nudge_outcomes |-> log ])

\* the weights (i + 1) / N of the negative outcomes among the last 10, over the
\* weights of all of them; 0.2 without history
WeightedNegativeShare(log) ==
    LET recent == LastN(log, 10)
        N == Len(recent)
    IN IF N = 0 THEN <<1, 5>>
       ELSE Norm(<<SumOf(NegativeAt(recent)), (N * (N + 1)) \div 2>>)

StoredFrictions == { Zero, <<1, 2>>, One, <<7, 1>> }

\* C24: recalculateAll computes every habit's friction_score anew: the value it
\* stores is what the same call stores whatever friction_score the habit held
\* before, one written by update_habit_state included.
C24_FrictionRecomputed ==
    [][ (lastOp' # lastOp /\ lastOp'.name = "recalculateAll")
          => \E context \in ScoringContexts :
                /\ habits' = recalculateAll(habits, context, now)
                /\ \A id \in DOMAIN habits, stored \in StoredFrictions :
                      recalculateOne([habits[id] EXCEPT !.friction_score = stored],
                                     context, now).friction_score
                        = habits'[id].friction_score ]_vars

\* recalculateAll has run right after a tool call (a recalculation that follows
\* another has seq 0), and every tool call here writes a friction_score
C24_Witness ==
    /\ lastOp.name = "recalculateAll"
    /\ lastOp.seq = 1
    /\ engineCalls = 2
    /\ habits["gym"].friction_score = <<9, 20>>
    /\ habits["laundry"].friction_score = <<17, 20>>


\* a record of a sent nudge that carries no outcome yet
Pending == \E id \in DOMAIN habits : "null" \in Range(habits[id].recent_nudge_outcomes)

\* a record carries an outcome that a notification action gives
Resolved ==
    \E id \in DOMAIN habits :
        Range(habits[id].recent_nudge_outcomes) \cap NotificationActions # {}

\* C25: a nudge's record is appended with outcome null, and once the user has
\* responded to the notification (handleNotificationAction) a record of the
\* habit's recent_nudge_outcomes eventually carries the user's outcome.
C25_OutcomeResolved == (Pending /\ lastNudgeResponse \in NotificationActions) ~> Resolved


Min(a, b) == IF a <= b THEN a ELSE b

\* C26: the audit history holds at most 200 results, the most recently appended
\* ones in the order they were appended, and getRecentCycles(n) returns the last
\* min(n, size) of them.
C26_HistoryCapped ==
    /\ Len(agent_history) <= 200
    /\ Len(agent_history) = Min(Appended(agent_history), 200)
    /\ \A i \in 1..Len(agent_history) :
          agent_history[i] = Appended(agent_history) - Len(agent_history) + i
    /\ lastRecent.called
          => LET size == Len(lastRecent.history)
                 n == Min(lastRecent.count, size)
             IN lastRecent.returned = SubSeq(lastRecent.history, size - n + 1, size)


\* C27: after recordNudgeOutcome the habit's recent_nudge_outcomes holds at most
\* 20 records, the most recently appended ones in the order they were appended,
\* and resistance_score is the resistance of that buffer.
C27_OutcomeBuffer ==
    [][ (lastOp' # lastOp /\ lastOp'.name = "recordNudgeOutcome")
          => LET old == habits["gym"].recent_nudge_outcomes
                 new == habits'["gym"].recent_nudge_outcomes
                 kept == Len(new) - 1
             IN /\ Len(new) <= 20
                /\ Len(new) = Min(Len(old) + 1, 20)
                /\ \A i \in 1..kept : new[i] = old[Len(old) - kept + i]
                /\ new[Len(new)] \in RecordOutcomes
                /\ habits'["gym"].resistance_score = WeightedNegativeShare(new) ]_vars

\* a record was appended to a full buffer whose oldest record was the only
\* dismissed one: that record is gone, and of the last 10 only the new one is
\* negative, which weighs 10 of 55
C27_Witness ==
    /\ lastOp.name = "recordNudgeOutcome"
    /\ Len(habits["gym"].recent_nudge_outcomes) = 20
    /\ habits["gym"].recent_nudge_outcomes[20] = "ignored"
    /\ "dismissed" \notin Range(habits["gym"].recent_nudge_outcomes)
    /\ habits["gym"].resistance_score = <<2, 11>>


\* the window after a sample arrived: the samples held before, without the oldest
\* once there are 10, then the new one
Arrived(old, new) ==
    LET kept == Len(new) - 1
    IN /\ Len(new) = Min(Len(old) + 1, 10)
       /\ \A i \in 1..kept : new[i] = old[Len(old) - kept + i]
       /\ new[Len(new)] \in LatencySamples

\* the average of a window, 5000 ms for an empty one
AverageOr5000(arr) == IF arr = << >> THEN <<5000, 1>> ELSE <<SumSeq(arr), Len(arr)>>

\* C28: each path's latency window holds at most 10 samples, the most recent ones
\* in arrival order; a sample recorded for one path leaves the other path's window
\* as it was; an empty window counts as an average of 5000 ms where the router
\* compares the averages.
C28_LatencyWindows ==
    [][ /\ Len(recentLocalLatencies') <= 10
        /\ Len(recentCloudLatencies') <= 10
        /\ recentLocalLatencies' # recentLocalLatencies
              => /\ Arrived(recentLocalLatencies, recentLocalLatencies')
                 /\ recentCloudLatencies' = recentCloudLatencies
        /\ recentCloudLatencies' # recentCloudLatencies
              => /\ Arrived(recentCloudLatencies, recentCloudLatencies')
                 /\ recentLocalLatencies' = recentLocalLatencies
        /\ ( /\ lastRoute' # lastRoute
             /\ lastRoute'.ctx = MidContext
             /\ localFailures = 0 )
              => (lastRoute'.decision = "local"
                    <=> LessThan70Percent(AverageOr5000(recentLocalLatencies),
                                          AverageOr5000(recentCloudLatencies))) ]_vars

\* the local window was full when a sample of 9000 ms arrived and lost its oldest
\* sample; the cloud window is empty, and the router has chosen the local path,
\* the faster one if the cloud's average counts as 5000 ms
C28_Witness ==
    /\ Len(recentLocalLatencies) = 10
    /\ recentLocalLatencies[1] = 20
    /\ recentLocalLatencies[10] = 9000
    /\ recentCloudLatencies = << >>
    /\ localFailures = 0
    /\ lastRoute.decision = "local"

\* C29: a failure counter changes by one at a time, up on recordFailure and down
\* on recordSuccess, never below 0, and a call for one path leaves the other
\* path's counter as it was.
C29_FailureCounters ==
    [][ /\ localFailures' >= 0
        /\ cloudFailures' >= 0
        /\ localFailures' # localFailures
              => /\ localFailures' \in { localFailures + 1, localFailures - 1 }
                 /\ cloudFailures' = cloudFailures
        /\ cloudFailures' # cloudFailures
              => /\ cloudFailures' \in { cloudFailures + 1, cloudFailures - 1 }
                 /\ localFailures' = localFailures ]_vars

\* failures were recorded for both paths, more of them for the local one
C29_Witness == localFailures = MaxFailures /\ cloudFailures = MaxFailures - 1


\* C30: the attempts a cycle made at inference are reported to the router: when
\* complete() has returned to decide(), a latency sample has been recorded for a
\* path, and a failure has been counted if every attempt failed.
C30_AttemptsReported ==
    \A c \in Cycles :
        (cy[c].pc = "validate" /\ cy[c].attempts # << >>)
            => /\ recentLocalLatencies # << >> \/ recentCloudLatencies # << >>
               /\ (\A i \in 1..Len(cy[c].attempts) : cy[c].attempts[i][2] # "ok")
                     => localFailures + cloudFailures > 0

----------------------------------------------------------------------------
\* what Number(args.minutes) is: a number, or not one
NotANumber(args) ==
    \/ ~Has(args, "minutes")
    \/ Arg(args, "minutes") \notin Numerals \cup { "" }
MinutesOf(args) ==
    IF Arg(args, "minutes") = "" THEN 0 ELSE NumberOf(Arg(args, "minutes"))

\* the step is a call of increase_cooldown through the executor
CooldownAsked ==
    /\ lastExec'.seq # lastExec.seq
    /\ lastExec'.call.name = "increase_cooldown"
    /\ lastExec'.call.hasArgs

\* C33: increase_cooldown with no habit_id, or with minutes that are not a
\* number or are at most 0, returns a failure and leaves every cooldown_until as it
\* was; with valid arguments it succeeds and the habit's cooldown_until becomes
\* now + min(minutes, 120), the other habits keeping theirs.
C33_CooldownValidated ==
    [][ CooldownAsked =>
          LET args == lastExec'.call.arguments IN
          IF \/ ~Truthy(args, "habit_id")
             \/ NotANumber(args)
             \/ MinutesOf(args) <= 0
          THEN /\ ~lastExec'.result.success
               /\ \A id \in DOMAIN habits :
                     /\ id \in DOMAIN habits'
                     /\ habits'[id].cooldown_until = habits[id].cooldown_until
          ELSE /\ lastExec'.result.success
               /\ \A id \in DOMAIN habits :
                     habits'[id].cooldown_until =
                        IF id = Arg(args, "habit_id")
                        THEN now + Min(MinutesOf(args), 120)
                        ELSE habits[id].cooldown_until ]_vars

\* 500 minutes were asked for gym, and gym cools down for 120
C33_Witness ==
    /\ lastExec.call = Cooldown("gym", "500")
    /\ lastExec.result.success
    /\ habits["gym"].cooldown_until = now + 120
    /\ habits["laundry"].cooldown_until = 0

----------------------------------------------------------------------------
\* the step is a callback of a timer calling runCycle
TimerStartsCycle ==
    /\ lastStart' # lastStart
    /\ lastStart'.by \in { "timeout", "interval timer", "scroll poll", "health poll" }

\* C35: once stop() has been called and start() has not been called since, no
\* timer callback (interval tick, jitter timeout, scroll poll, health poll) calls
\* runCycle, whatever start() and the timeouts were doing when stop() was called.
C35_NoCycleAfterStop == [][ TimerStartsCycle => lastControl # "stop" ]_vars

LiveTimers(kind) == { t \in timers : t.kind = kind }

\* C36: at most one interval timer, one scroll-poll timer and one health-poll
\* timer are live, under every interleaving of start(), stop() and setIntervalMs().
C36_OneTimerPerKind ==
    \A kind \in { "interval", "scroll", "health" } : Cardinality(LiveTimers(kind)) <= 1

\* the step is a health poll calling runCycle('health_milestone')
MilestoneCycleStarts ==
    /\ lastStart' # lastStart
    /\ lastStart'.by = "health poll"
    /\ "health_milestone" \in lastStart'.triggers

\* C40: with steps_today not decreasing, lastStepCount is a multiple of 5000 and
\* never decreases; it changes exactly when a poll starts a health_milestone
\* cycle, and then it becomes the 5000-step boundary at or below steps_today, which
\* is above the boundary of the cycle before: one such cycle per boundary.
C40_OneCyclePerMilestone ==
    [][ /\ lastStepCount' % 5000 = 0
        /\ lastStepCount' >= lastStepCount
        /\ (lastStepCount' # lastStepCount) <=> MilestoneCycleStarts
        /\ MilestoneCycleStarts =>
              /\ lastStepCount' = 5000 * (steps_today \div 5000)
              /\ lastStepCount' <= steps_today
              /\ steps_today < lastStepCount' + 5000
              /\ lastStepCount' >= lastStepCount + 5000 ]_vars

\* a cycle was started at 5000 or 7000 steps, and a later poll at 7000 steps
\* started only the exercise cycle
C40_Witness ==
    /\ lastStepCount = 5000
    /\ steps_today = 7000
    /\ lastStart.by = "health poll"
    /\ lastStart.triggers = { "exercise_detected" }

----------------------------------------------------------------------------
\* the friction a cycle with this context assigns to the habit
FrictionUnder(id, context) == recalculateOne(habits[id], context, now).friction_score

\* C31: runCycle is started whatever other cycles are doing, and a cycle
\* assigns its scores to a habit without asking who wrote it since the cycle
\* began: every recomputed habit holds the friction of the cycle that wrote it
\* last.
C31_LaterWriteWins ==
    \A id \in DOMAIN habits :
        lastWrite[id] # NoContext =>
            habits[id].friction_score = FrictionUnder(id, lastWrite[id])

\* the interval cycle has recomputed gym and still awaits the save inside
\* recalculateAll; the scroll cycle, started after it, has recomputed gym too,
\* and gym holds the scroll cycle's friction, not the interval cycle's
C31_Witness ==
    /\ run[1].trigger = "interval" /\ run[1].pc = "loop"
    /\ run[2].trigger = "prolonged_scrolling" /\ run[2].pc # "idle"
    /\ "gym" \in Range(run[1].updated) \cap Range(run[2].updated)
    /\ lastWrite["gym"] = run[2].context
    /\ habits["gym"].friction_score = FrictionUnder("gym", run[2].context)
    /\ habits["gym"].friction_score # FrictionUnder("gym", run[1].context)

\* C37: the habit values an appended result holds stay as they were when it
\* was appended, whatever a later cycle or a later call of the engine does.
C37_EntriesAreSnapshots ==
    [][ \A i \in DOMAIN audit : HabitStates(audit[i])' = HabitStates(audit[i]) ]_vars

\* C34: structured calls are primary; the textual parser runs only on a
\* result with no structured call and a non-empty text; in it the call: matches
\* that have at least one argument win, the single JSON object is used only if
\* there is none; a response with no call has confidence 0.3 (30 of 100) and
\* decide() gives a null tool call for it.
Backends == { "rest", "cactus" }
StructuredOf(b, input) ==
    IF b = "rest" THEN [ i \in DOMAIN input.calls |-> WithDefaultArgs(input.calls[i]) ]
    ELSE input.calls
CallMatches(text) ==
    LET withArgs == SelectSeq(Syntax(text).matches, LAMBDA m : Len(m.body) > 0)
    IN [ i \in DOMAIN withArgs |->
           Call(withArgs[i].name, { withArgs[i].body[k] : k \in DOMAIN withArgs[i].body }) ]
JsonCall(text) ==
    LET json == Syntax(text).json
    IN IF json.kind = "object" /\ json.name # "" /\ json.hasArguments
       THEN << Call(json.name, json.arguments) >>
       ELSE << >>
ExpectedCalls(b, input) ==
    IF Len(input.calls) > 0 \/ input.text = "" THEN StructuredOf(b, input)
    ELSE IF Len(CallMatches(input.text)) > 0 THEN CallMatches(input.text)
    ELSE JsonCall(input.text)
C34_StructuredCallsPrimary ==
    \A b \in Backends :
        normalised[b].called =>
            /\ normalised[b].response.function_calls = ExpectedCalls(b, normalised[b].input)
            /\ Len(normalised[b].response.function_calls) = 0 =>
                   /\ normalised[b].response.confidence = 30
                   /\ ~normalised[b].decision.threw
                   /\ normalised[b].decision.toolCall = NullCall
C34_Witness ==
    /\ normalised.cactus.called
    /\ normalised.cactus.input = Raw(TRUE, << >>, JsonQuoting)
    /\ normalised.cactus.response.function_calls =
           << Call("send_nudge", { <<"habit_id", "gym">> }) >>
    /\ normalised.rest.called
    /\ normalised.rest.input = Raw(TRUE, << >>, JsonNoArgs)
    /\ normalised.rest.response.function_calls = << >>
    /\ normalised.rest.response.confidence = 30
    /\ normalised.rest.decision.toolCall = NullCall

\* C32: no exit of an on-device attempt leaves the resource inferring.  With the
\* runtime of three paths, a hybrid or local attempt that failed or timed out
\* is followed by the awaited lm.stop(), and only then by the next attempt or
\* the return.  In the flag-guarded runtime _inferring is false whenever no
\* complete() call is in its native attempt, and a call that has returned has
\* no native generation left running.
NativeWaits == { "hybrid_wait", "local_wait" }
StopAfter(pc) == IF pc = "hybrid_wait" THEN "hybrid_stop" ELSE "local_stop"
NextAfterStop(pc) == IF pc = "hybrid_stop" THEN "path3" ELSE "fallback"
LastAttempt(rec) == rec.attempts[Len(rec.attempts)]
StoppedAfterFailure(c) ==
    /\ (cy[c].pc \in NativeWaits /\ cy'[c].pc # cy[c].pc) =>
          \/ /\ cy'[c].pc = "validate"
             /\ LastAttempt(cy'[c])[2] = "ok"
          \/ /\ cy'[c].pc = StopAfter(cy[c].pc)
             /\ LastAttempt(cy'[c])[2] = "failed"
    /\ (cy[c].pc \in { "hybrid_stop", "local_stop" } /\ cy'[c].pc # cy[c].pc) =>
          cy'[c].pc = NextAfterStop(cy[c].pc)
InNativeAttempt(r) == completions[r].pc = "native_wait"
FlagFollowsAttempt ==
    /\ guarded.inferring => \E r \in Requests : InNativeAttempt(r)
    /\ \A r \in Requests : completions[r].pc \in { "idle", "returned" } => r \notin generating
C32_NotLeftInferring ==
    [][ /\ \A c \in Cycles : StoppedAfterFailure(c)
        /\ FlagFollowsAttempt' ]_vars
C32_Witness ==
    /\ build = "paths"
    /\ \E c \in Cycles :
          /\ cy[c].pc = "fallback"
          /\ \E i, j \in DOMAIN cy[c].attempts :
                /\ cy[c].attempts[i] = <<"hybrid", "failed">>
                /\ cy[c].attempts[j] = <<"local", "failed">>
C32_WitnessFlag ==
    /\ build = "core"
    /\ guarded.nativeFailures = 1
    /\ ~guarded.inferring
    /\ generating = {}
    /\ \E r \in Requests : completions[r] = Answered("mock")
    /\ \A r \in Requests : completions[r].pc # "stop_wait"

\* C38: in the flag-guarded runtime at most one native inference is in flight,
\* at most one call awaits one, and a complete() that arrives while another
\* call awaits its native inference is answered by the mock, starts no native
\* generation and leaves the flag and the failure counter alone.
Arrives(r) == completions[r].pc = "idle" /\ completions'[r].pc # "idle"
OtherAwaits(r) == \E q \in Requests \ { r } : InNativeAttempt(q)
AtMostOneAwaits == Cardinality({ r \in Requests : InNativeAttempt(r) }) <= 1
C38_SecondCallGetsMock ==
    [][ /\ Cardinality(generating') <= 1
        /\ AtMostOneAwaits'
        /\ \A r \in Requests :
              (Arrives(r) /\ OtherAwaits(r)) =>
                  /\ completions'[r] = Answered("mock")
                  /\ generating' = generating
                  /\ guarded' = guarded ]_vars

\* C39: a native inference that succeeds sets the failure counter to 0,
\* one that fails or times out adds 1, and once the counter is at its limit it
\* never decreases, every complete() is answered by the mock and no native
\* inference is attempted.
Succeeds(r) == InNativeAttempt(r) /\ completions'[r] = Answered("native")
Fails(r) == InNativeAttempt(r) /\ completions'[r].pc # "native_wait" /\ ~Succeeds(r)
Latched == guarded.nativeFailures >= NativeFailureLimit
C39_LatchingBreaker ==
    [][ \A r \in Requests :
          /\ Succeeds(r) => guarded'.nativeFailures = 0
          /\ Fails(r) => guarded'.nativeFailures = guarded.nativeFailures + 1
          /\ Latched =>
                /\ guarded'.nativeFailures >= guarded.nativeFailures
                /\ ~InNativeAttempt(r)'
                /\ Arrives(r) => completions'[r] = Answered("mock") ]_vars

====
